---- MODULE Spec2Model ----
(***************************************************************************)
(* EasyDiverPlus enrichment engine: the count-table loader and its         *)
(* binomial bootstrap, the round merger, the unique-name assignment, the   *)
(* enrichment calculator and the result writer, as state machines.         *)
(*                                                                         *)
(* The machines share the module, each with its own specification:         *)
(*   SpecBoot   the bootstrap of src/modified_counts.py (one resampling    *)
(*              per row), of src/seq_names_and_bootstrap.py (cached by     *)
(*              observed count) and of src/bootstrap.py, with the loaders' *)
(*              CountRecords, over the numpy global generator;             *)
(*   SpecRun    find_enrichments of src/modified_counts.py, round by round;*)
(*   SpecEnr    process_enrichments applied to one merged row;             *)
(*   SpecWrite  enrich_and_write's file steps beside a concurrent reader;  *)
(*   SpecNames  two runs of seq_names_and_bootstrap.py on one seqdict file;*)
(*   SpecDirs   find_enrichments of easy_diver_2_gui over counts folders;  *)
(*   SpecPivot  write_enrichments_final_output, first and second call;     *)
(*   SpecDiv    safe_divide on the operands process_enrichments passes;    *)
(*   SpecGraphs one SSAILR.generate_graphs request and its worker threads; *)
(*   SpecLock   application starts and exits on the lock file.             *)
(***************************************************************************)
EXTENDS Integers, Sequences, FiniteSets, TLC

VARIABLES
    \* ---- SpecBoot: loader and bootstrap
    bpc,            \* "idle" | "rows": position inside easy_diver_counts_to_df;
                    \* "raised": an exception left bootstrap_counts_binomial
    bvariant,       \* the program run: "parallel" (modified_counts.py),
                    \* "cached" (seq_names_and_bootstrap.py) or "script"
                    \* (bootstrap.py, called once per data point)
    btotal,         \* total_mols of the counts file being loaded (0: none)
    bcounts,        \* the Count column of the rows read so far
    bresults,       \* the intervals parallel_apply / df.apply returned for them
    records,        \* the CountRecords of the last file loaded
    lookups,        \* rows bootstrapped so far, over all files
    rng,            \* state of numpy's global generator (0 = just seeded)
    stream,         \* what the generator yields, fixed lazily: [rng, total, count] -> sample
    boot_dict,      \* seq_names_and_bootstrap.py's bootstrap_dict: count -> interval
    calls,          \* history: lookups per (total, count), counted up to 2
    draws,          \* history: np.random.binomial executions per (total, count), up to 2
    returned,       \* history: the intervals ever returned per (total, count)
    bdraws,         \* history: np.random.binomial executions for the file being loaded
    bworkers,       \* history: the pool workers that were handed a row of that file
    \* ---- SpecEnr: process_enrichments on one merged row
    epc,            \* "off" | "row" (a row is at hand) | "done" (it was processed)
    evariant,       \* "main" (src/modified_counts.py) or "gui2" (easy_diver_2_gui)
    erow,           \* the merged row: group name -> CountRecord
    eres,           \* what process_enrichments gave for it
    \* ---- SpecRun: find_enrichments of src/modified_counts.py, one counts folder
    rpc,            \* "off" | "round" (before iteration i) | "merged" (after it)
                    \* | "done" | "crashed" (an uncaught exception ended the run)
    round_i,        \* the loop variable i
    max_round,      \* rounds_data['round_number'].max()
    neg_files_exist,\* the sorting table lists a negative file for some round
    prev_out,       \* the out file of round i - 1 (<<>>: none)
    rfiles,         \* the files get_first_matching_file found for round i
    unique_sequence_dict,   \* Sequence -> Unique_Sequence_Name
    merged_data,    \* what merge_data_for_rounds returned for round i
    written,        \* the table enrich_and_write wrote for round i
    extra_header,   \* the header block it wrote above the table (<<>>: none)
    named,          \* history: the names each sequence has carried in a merged row
    encountered,    \* history: the sequences in the order they were first named
    \* ---- SpecWrite: enrich_and_write's file steps and a reader
    wpc,            \* the step enrich_and_write is at ("off": not running)
    nchunks,        \* size of this round's table, in chunks
    old_dest,       \* <prefix>.csv as it was before the call
    dest,           \* <prefix>.csv
    temp,           \* <prefix>temp.csv
    original_content,   \* the local variable of that name
    observed,       \* what the reader saw when it last read <prefix>.csv
    wreturn,        \* "None" | "True" | "False": what the call returned
    \* ---- SpecNames: two invocations of seq_names_and_bootstrap.py main
    npc,            \* per invocation: "load" | "rows" | "open" | "dump" | "done"
                    \* | "crashed" | "off"
    nprefix,        \* per invocation: "nt" or "aa", from the counts file's name
    ncounts,        \* per invocation: the Sequence column of its counts file
    seq_dict_file,  \* the file at seq_dict_path: [complete, dict]
    sequence_dict,  \* per invocation: the local variable of that name
    noutput,        \* per invocation: the rows of the output file it wrote
    \* ---- SpecDirs: find_enrichments of easy_diver_2_gui over the two folders
    dpc,            \* "folder" (at the top of the loop over counts types) | "rounds"
                    \* (inside the loop over rounds) | "returned" | "crashed" | "off"
    ind,            \* the folder at hand: 1 (counts) or 2 (counts_aa); 3: past both
    rounds_data,    \* the sorting table: rows [filename, round_number, file_type]
    counts_listing, \* per folder: os.listdir cut at "_counts", or NoDir
    dround,         \* the loop variable i of the loop over rounds
    dround_files,   \* per folder: the rounds whose result file is written
    dpivot,         \* per folder: write_enrichments_final_output has written
    \* ---- SpecPivot: write_enrichments_final_output over one directory
    ppc,            \* "read" (the loop over files) | "write" (the loop over
                    \* metric columns) | "done" | "raised" | "off"
    pvariant,       \* "main" (src/modified_counts.py) or "gui2" (easy_diver_2_gui)
    pfiles,         \* per round: the rows of its result file, Sequence -> values
    plisting,       \* os.listdir(directory): the rounds of the files, in its
                    \* order; AllRounds for an all_rounds_*_results.csv file
    pread,          \* files read and merged so far
    pmerged,        \* merged_df: [keys, rounds], the rows and the rounds of its columns
    pcol,           \* index of the metric column at hand
    pwritten,       \* per metric column: the Sequence column of the pivot written
    \* ---- SpecDiv: one call of safe_divide made by process_enrichments
    div_pc,         \* "call": before the call, "returned": after it
    div_a,          \* the numerator a
    div_b,          \* the denominator b
    div_default,    \* the default (the calculator never supplies one: 0.0)
    div_res,        \* the value returned
    \* ---- SpecGraphs: one SSAILR.generate_graphs request (ssailr_gui/ssailr.py)
    gpc,            \* "idle": before the request, "requested": after it, "off"
    graph_tasks,    \* self.graph_tasks: the graph types still queued
    gworker,        \* self.worker: the thread of the task at hand, or NoWorker
    output_text,    \* lines appended to output_text so far
    gstarted,       \* history: the graph types whose worker was started, in order
    callbacks,      \* history: the codes finished_callback was invoked with
    \* ---- SpecLock: starts and exits of the GUI application on one lock file
    lvariant,       \* "plus" (easy_diver_plus_main.py) or "gui2" (easy_diver_2_main.py)
    lpc,            \* per process: "out" | "opened" | "running" | "releasing" |
                    \* "unlocked" | "closed"
    lock_file,      \* per process: the inode its global lock_file is open on (0: none)
    lockfile,       \* the inode the path lockfile names (0: no such file)
    flocked,        \* per inode: the process holding its exclusive lock (0: none)
    ninodes,        \* inodes created so far
    starts          \* per process: how often it has been started

bootVars == <<bpc, bvariant, btotal, bcounts, bresults, records, lookups,
              rng, stream, boot_dict, calls, draws, returned, bdraws, bworkers>>

enrVars == <<epc, evariant, erow, eres>>

runVars == <<rpc, round_i, max_round, neg_files_exist, prev_out, rfiles,
             unique_sequence_dict, merged_data, written, extra_header, named, encountered>>

writeVars == <<wpc, nchunks, old_dest, dest, temp, original_content, observed, wreturn>>

nameVars == <<npc, nprefix, ncounts, seq_dict_file, sequence_dict, noutput>>

dirsVars == <<dpc, ind, rounds_data, counts_listing, dround, dround_files, dpivot>>

pivotVars == <<ppc, pvariant, pfiles, plisting, pread, pmerged, pcol, pwritten>>
divVars == <<div_pc, div_a, div_b, div_default, div_res>>
graphVars == <<gpc, graph_tasks, gworker, output_text, gstarted, callbacks>>
lockVars == <<lvariant, lpc, lock_file, lockfile, flocked, ninodes, starts>>

vars == <<bootVars, enrVars, runVars, writeVars, nameVars, dirsVars, pivotVars, divVars, graphVars, lockVars>>

\* the variables of the machines other than the named one
notBoot == <<enrVars, runVars, writeVars, nameVars, dirsVars, pivotVars, divVars, graphVars, lockVars>>
notEnr == <<bootVars, runVars, writeVars, nameVars, dirsVars, pivotVars, divVars, graphVars, lockVars>>
notRun == <<bootVars, enrVars, writeVars, nameVars, dirsVars, pivotVars, divVars, graphVars, lockVars>>
notWrite == <<bootVars, enrVars, runVars, nameVars, dirsVars, pivotVars, divVars, graphVars, lockVars>>
notName == <<bootVars, enrVars, runVars, writeVars, dirsVars, pivotVars, divVars, graphVars, lockVars>>
notDirs == <<bootVars, enrVars, runVars, writeVars, nameVars, pivotVars, divVars, graphVars, lockVars>>
notPivot == <<bootVars, enrVars, runVars, writeVars, nameVars, dirsVars, divVars, graphVars, lockVars>>
notDiv == <<bootVars, enrVars, runVars, writeVars, nameVars, dirsVars, pivotVars, graphVars, lockVars>>
notGraphs == <<bootVars, enrVars, runVars, writeVars, nameVars, dirsVars, pivotVars, divVars, lockVars>>
notLock == <<bootVars, enrVars, runVars, writeVars, nameVars, dirsVars, pivotVars, divVars, graphVars>>

-----------------------------------------------------------------------------
(* Bounds of the model *)

MaxTotal == 2       \* largest total_molecules of a counts file in SpecBoot
MaxLookups == 3     \* rows bootstrapped in one behaviour of SpecBoot
MaxRng == 2         \* generator states told apart besides the seeded one
BootDepth == 2      \* bootstrap_depth (the code passes 1000)

-----------------------------------------------------------------------------
(* Numbers.  A value of a table cell is a record: a non-negative rational  *)
(* n/d in lowest terms, or one of the missing markers.                     *)

RECURSIVE GCD(_, _)
GCD(a, b) == IF b = 0 THEN a ELSE GCD(b, a % b)

Num(n, d) == LET g == GCD(n, d) IN [k |-> "num", n |-> n \div g, d |-> d \div g]
NaN == [k |-> "nan", n |-> 0, d |-> 1]      \* np.nan
Inf == [k |-> "inf", n |-> 0, d |-> 1]      \* np.inf
NA == [k |-> "NA", n |-> 0, d |-> 1]        \* pd.NA
None == [k |-> "None", n |-> 0, d |-> 1]    \* Python None

IsNum(x) == x.k = "num"
Zero == Num(0, 1)
One == Num(1, 1)

\* a column divided by a column or a scalar, n / d element by element: a
\* zero divisor gives NaN (0 / 0) or inf, and no exception
ColumnDivide(n, d) == IF d # 0 THEN Num(n, d) ELSE IF n = 0 THEN NaN ELSE Inf

\* Series.astype(int) on a non-negative float: truncation.
AsInt(x) == x.n \div x.d

-----------------------------------------------------------------------------
(* The bootstrap: np.percentile (linear interpolation) and np.around.      *)

\* the sorted samples of n binomial draws out of `total` trials
SortedSamples(total, n) ==
    {s \in [1..n -> 0..total] : \A i \in 1..(n - 1) : s[i] <= s[i + 1]}

\* np.random.binomial(total, count/total, size = depth), sorted: with p = 0
\* every draw is 0, with p = 1 every draw is total.
BinomialSamples(total, count) ==
    IF count = 0 THEN {[i \in 1..BootDepth |-> 0]}
    ELSE IF count = total THEN {[i \in 1..BootDepth |-> total]}
    ELSE SortedSamples(total, BootDepth)

\* np.percentile(sample, q) in thousandths; q1000 is q as thousandths of 1
\* (2.5 -> 25, 97.5 -> 975): virtual index (n-1)*q, linear interpolation.
Percentile1000(s, q1000) ==
    LET pos == (Len(s) - 1) * q1000
        lo == pos \div 1000
        frac == pos % 1000
    IN  IF frac = 0 THEN 1000 * s[lo + 1]
        ELSE 1000 * s[lo + 1] + frac * (s[lo + 2] - s[lo + 1])

\* np.around(x, 2) on thousandths, giving hundredths: round half to even.
Around2(v1000) ==
    LET q == v1000 \div 10
        r == v1000 % 10
    IN  IF r < 5 THEN q
        ELSE IF r > 5 THEN q + 1
        ELSE IF q % 2 = 0 THEN q ELSE q + 1

\* the 95% interval of a sample, [lower, upper] in hundredths of a count
Bootstrapped95CI(s) == <<Around2(Percentile1000(s, 25)), Around2(Percentile1000(s, 975))>>

-----------------------------------------------------------------------------
(* SpecBoot: the two loaders and their bootstrap.                          *)

Variants == {"parallel", "cached", "script"}

\* the two enrichment programs
EnrVariants == {"main", "gui2"}

\* the totals the headers of the counts files of a behaviour give: none,
\* the smallest and the largest
Totals == {0, 1, MaxTotal}
BootKeys == Totals \X (0..MaxTotal)
StreamKeys == (0..MaxRng) \X Totals \X (0..MaxTotal)

RECURSIVE SumSeq(_)
SumSeq(s) == IF s = <<>> THEN 0 ELSE Head(s) + SumSeq(Tail(s))

\* the counts the next row of the file can hold: the rows of a counts file
\* add up to no more than the header's total
NextCounts == 0..(btotal - SumSeq(bcounts))

\* np.random.seed(seed) with seed = 42 (never None at a call site): the
\* generator is put in the seeded state.
SeedRng_skipped(r) == r
SeedRng(r) == 0

\* a draw moves the generator on; state 0 is reached by seeding only
AdvanceRng(r) == (r % MaxRng) + 1

\* count_seq / total_counts, the binomial parameter, on Python ints: a zero
\* total raises ZeroDivisionError
RaisesZeroDivision(total_counts) == total_counts = 0

\* np.random.binomial in generator state r yields sample s: the generator is a
\* fixed function of its state and arguments, fixed here on first use.
BinomialDraw(r, total, count, s) ==
    /\ s \in BinomialSamples(total, count)
    /\ stream[<<r, total, count>>] \in {<<>>, s}

Cap2(n) == IF n >= 2 THEN 2 ELSE n

\* history bookkeeping of one lookup of key vk that returned interval ci
Recorded(vk, ci, drew) ==
    /\ calls' = [calls EXCEPT ![vk] = Cap2(@ + 1)]
    /\ draws' = [draws EXCEPT ![vk] = IF drew THEN Cap2(@ + 1) ELSE @]
    /\ returned' = [returned EXCEPT ![vk] = @ \cup {ci}]

\* the worker processes of parallel_apply's ProcessPoolExecutor
\* (max_workers = os.cpu_count())
Workers == {1, 2}

\* modified_counts.py: executor.map hands the next row of the file to a
\* worker: process_row -> bootstrap_counts_binomial; every row is resampled.
BootRowParallel ==
    /\ bpc = "rows" /\ bvariant = "parallel" /\ lookups < MaxLookups
    /\ ~RaisesZeroDivision(btotal)
    /\ \E worker \in Workers : bworkers' = bworkers \cup {worker}
    /\ bdraws' = bdraws + 1
    /\ \E count \in NextCounts :
         LET r == SeedRng(rng)
         IN  \E s \in BinomialSamples(btotal, count) :
               /\ BinomialDraw(r, btotal, count, s)
               /\ stream' = [stream EXCEPT ![<<r, btotal, count>>] = s]
               /\ rng' = AdvanceRng(r)
               /\ bcounts' = Append(bcounts, count)
               /\ bresults' = Append(bresults, Bootstrapped95CI(s))
               /\ Recorded(<<btotal, count>>, Bootstrapped95CI(s), TRUE)
    /\ lookups' = lookups + 1
    /\ UNCHANGED <<bpc, bvariant, btotal, records, boot_dict>>
    /\ UNCHANGED notBoot

\* seq_names_and_bootstrap.py: bootstrap_counts_binomial with bootstrap_dict,
\* keyed by str(count_seq); a hit returns the stored interval.
BootRowCached ==
    /\ bpc = "rows" /\ bvariant = "cached" /\ lookups < MaxLookups
    /\ \E count \in NextCounts :
         LET r == SeedRng(rng)
         IN  IF boot_dict[count] # <<>>
             THEN /\ rng' = r
                  /\ bcounts' = Append(bcounts, count)
                  /\ bresults' = Append(bresults, boot_dict[count])
                  /\ Recorded(<<btotal, count>>, boot_dict[count], FALSE)
                  /\ UNCHANGED <<stream, boot_dict, bdraws>>
             ELSE \E s \in BinomialSamples(btotal, count) :
                  /\ ~RaisesZeroDivision(btotal)
                  /\ BinomialDraw(r, btotal, count, s)
                  /\ stream' = [stream EXCEPT ![<<r, btotal, count>>] = s]
                  /\ rng' = AdvanceRng(r)
                  /\ boot_dict' = [boot_dict EXCEPT ![count] = Bootstrapped95CI(s)]
                  /\ bdraws' = bdraws + 1
                  /\ bcounts' = Append(bcounts, count)
                  /\ bresults' = Append(bresults, Bootstrapped95CI(s))
                  /\ Recorded(<<btotal, count>>, Bootstrapped95CI(s), TRUE)
    /\ lookups' = lookups + 1
    /\ UNCHANGED <<bpc, bvariant, btotal, records, bworkers>>
    /\ UNCHANGED notBoot

\* a bootstrap call for a row of a file whose total is 0: the generator is
\* seeded, then count_seq / total_counts raises; the cached variant looks
\* the count up first and raises on a miss only
BootRowRaises ==
    /\ bpc = "rows" /\ lookups < MaxLookups
    /\ RaisesZeroDivision(btotal)
    /\ bvariant = "cached" => boot_dict[0] = <<>>
    /\ bpc' = "raised"
    /\ rng' = SeedRng(rng)
    /\ calls' = [calls EXCEPT ![<<btotal, 0>>] = Cap2(@ + 1)]
    /\ lookups' = lookups + 1
    /\ UNCHANGED <<bvariant, btotal, bcounts, bresults, records, stream, boot_dict,
                   draws, returned, bdraws, bworkers>>
    /\ UNCHANGED notBoot

\* Python's round(num / den): to the nearest integer, a tie to the even one
RoundHalfEven(num, den) ==
    LET q == num \div den
        r == num % den
    IN  IF 2 * r < den THEN q
        ELSE IF 2 * r > den THEN q + 1
        ELSE IF q % 2 = 0 THEN q ELSE q + 1

\* bootstrap.py: the list bootstrap(count, total) returns from sample s,
\* [count, margin]: round((upper - lower) / 2), or for total = 1, where the
\* draws are out of total * 10000, that half-width in 1/20000000ths
BootstrapMargin(count, total, s) ==
    IF total # 1
    THEN <<count, RoundHalfEven(Percentile1000(s, 975) - Percentile1000(s, 25), 2000)>>
    ELSE LET s10000 == [i \in 1..Len(s) |-> 10000 * s[i]]
         IN  <<count, Percentile1000(s10000, 975) - Percentile1000(s10000, 25)>>

\* bootstrap.py: bootstrap(count, total) for the next data point
BootRowScript ==
    /\ bpc = "rows" /\ bvariant = "script" /\ lookups < MaxLookups
    /\ ~RaisesZeroDivision(btotal)
    /\ bdraws' = bdraws + 1
    /\ \E count \in NextCounts :
         LET r == SeedRng(rng)
         IN  \E s \in BinomialSamples(btotal, count) :
               /\ BinomialDraw(r, btotal, count, s)
               /\ stream' = [stream EXCEPT ![<<r, btotal, count>>] = s]
               /\ rng' = AdvanceRng(r)
               /\ bcounts' = Append(bcounts, count)
               /\ bresults' = Append(bresults, BootstrapMargin(count, btotal, s))
               /\ Recorded(<<btotal, count>>, BootstrapMargin(count, btotal, s), TRUE)
    /\ lookups' = lookups + 1
    /\ UNCHANGED <<bpc, bvariant, btotal, records, boot_dict, bworkers>>
    /\ UNCHANGED notBoot

\* df['Count_Lower'].replace(0, 1): only the value 0 is replaced
ReplaceZeroByOne(x) == IF x = Zero THEN One ELSE x

\* modified_counts.py easy_diver_counts_to_df: the record of one row, from
\* its interval ci (hundredths)
CountRecord(total, nseq, count, ci) ==
    LET lower == ReplaceZeroByOne(Num(ci[1], 100))
        upper == Num(ci[2], 100)
    IN  [Count |-> Num(count, 1),
         Count_Lower |-> lower,
         Count_Upper |-> upper,
         Freq |-> Num(count, total),
         Freq_Lower |-> Num(lower.n, lower.d * total),
         Freq_Upper |-> Num(upper.n, upper.d * total),
         Total_Unique_Sequences |-> Num(nseq, 1),
         Total_Molecules |-> Num(total, 1)]

\* seq_names_and_bootstrap.py easy_diver_counts_to_df: replace(0, 1), then
\* both bounds .astype(int); the frequency bounds come from the integer bounds
\* (as percentages; their 10-decimal formatting is not modelled).
CountRecordInt(total, nseq, count, ci) ==
    LET lower == Num(AsInt(ReplaceZeroByOne(Num(ci[1], 100))), 1)
        upper == Num(AsInt(Num(ci[2], 100)), 1)
    IN  [Count |-> Num(count, 1),
         Count_Lower |-> lower,
         Count_Upper |-> upper,
         Freq |-> ColumnDivide(100 * count, total),
         Freq_Lower |-> ColumnDivide(100 * lower.n, total),
         Freq_Upper |-> ColumnDivide(100 * upper.n, total),
         Total_Unique_Sequences |-> Num(nseq, 1),
         Total_Molecules |-> Num(total, 1)]

\* the loader is handed a file: easy_diver_parse_file_header reads its total
StartFile ==
    /\ bpc = "idle" /\ lookups < MaxLookups
    /\ \E t \in Totals : btotal' = t
    /\ bpc' = "rows"
    /\ bcounts' = <<>>
    /\ bresults' = <<>>
    /\ records' = <<>>
    /\ bdraws' = 0
    /\ bworkers' = {}
    /\ UNCHANGED <<bvariant, lookups, rng, stream, boot_dict, calls, draws, returned>>
    /\ UNCHANGED notBoot

\* all rows bootstrapped: the bounds are joined to the rows and clamped
\* (bootstrap.py keeps no table)
FinishFile ==
    /\ bpc = "rows" /\ Len(bcounts) >= 1
    /\ records' = IF bvariant = "script" THEN <<>>
                  ELSE [i \in 1..Len(bcounts) |->
                     IF bvariant = "parallel"
                     THEN CountRecord(btotal, Len(bcounts), bcounts[i], bresults[i])
                     ELSE CountRecordInt(btotal, Len(bcounts), bcounts[i], bresults[i])]
    /\ bpc' = "idle"
    /\ btotal' = 0
    /\ bcounts' = <<>>
    /\ bresults' = <<>>
    /\ bdraws' = 0
    /\ bworkers' = {}
    /\ UNCHANGED <<bvariant, lookups, rng, stream, boot_dict, calls, draws, returned>>
    /\ UNCHANGED notBoot

BootInit ==
    /\ bpc = "idle"
    /\ bvariant \in Variants
    /\ btotal = 0
    /\ bcounts = <<>>
    /\ bresults = <<>>
    /\ records = <<>>
    /\ lookups = 0
    /\ rng = 1
    /\ stream = [k \in StreamKeys |-> <<>>]
    /\ boot_dict = [c \in 0..MaxTotal |-> <<>>]
    /\ calls = [k \in BootKeys |-> 0]
    /\ draws = [k \in BootKeys |-> 0]
    /\ returned = [k \in BootKeys |-> {}]
    /\ bdraws = 0
    /\ bworkers = {}

BootNext ==
    \/ StartFile \/ BootRowParallel \/ BootRowCached \/ BootRowScript
    \/ BootRowRaises \/ FinishFile

\* the loaders are not run
BootOff ==
    /\ bpc = "off" /\ bvariant = "parallel" /\ btotal = 0
    /\ bcounts = <<>> /\ bresults = <<>> /\ records = <<>>
    /\ lookups = 0 /\ rng = 0
    /\ stream = <<>> /\ boot_dict = <<>>
    /\ calls = <<>> /\ draws = <<>> /\ returned = <<>>
    /\ bdraws = 0 /\ bworkers = {}

-----------------------------------------------------------------------------
(* SpecEnr: process_enrichments applied to one merged row.  A row maps the *)
(* group names of its columns to the group's values; the groups are named  *)
(* in / out / neg as in src/modified_counts.py (pre / post / neg in        *)
(* easy_diver_2_gui/modified_counts.py).                                   *)

MaxEnrCount == 2    \* largest Count of a table row in SpecEnr

\* Total_Molecules of the tables in SpecEnr: above every row's count
EnrTotal == MaxEnrCount + 1

Fields == {"Count", "Count_Lower", "Count_Upper", "Freq", "Freq_Lower",
           "Freq_Upper", "Total_Unique_Sequences", "Total_Molecules"}

\* the columns of a group the merge could not fill from a table
MissingGroup(v) == [f \in Fields |-> v]

\* interval bounds the bootstrap can return (hundredths): 0, the fraction
\* below 1 that interpolating between samples 0 and 1 gives, and whole counts
CIValues == {0, Around2(Percentile1000(<<0, 1>>, 975))} \cup {100 * i : i \in 1..MaxEnrCount}
EnrIntervals == {ci \in CIValues \X CIValues : ci[1] <= ci[2]}

\* the groups a loader produces: src/modified_counts.py bootstraps the counts
\* file itself; easy_diver_2_gui reads back what seq_names_and_bootstrap.py
\* wrote
LoadedGroups(v) ==
    {IF v = "main" THEN CountRecord(EnrTotal, 1, c, ci)
                   ELSE CountRecordInt(EnrTotal, 1, c, ci) :
        c \in 1..MaxEnrCount, ci \in EnrIntervals}

\* the value the merge writes into the columns of a table that is absent
AbsentFill_zero(v) == Zero
AbsentFill(v) == IF v = "main" THEN NaN ELSE NA

\* the rows merge_data_for_rounds can hand over: either both tables took
\* part in the joins (a sequence a table lacks gets NaN), or the out table
\* alone was kept and both other groups were filled in; and, for the
\* function on its own, a row without the neg columns.
EnrRows(v) ==
    LET joined == LoadedGroups(v) \cup {MissingGroup(NaN)}
    IN  {[in |-> gi, out |-> go, neg |-> gn] :
            gi \in joined, go \in LoadedGroups(v), gn \in joined}
        \cup {[in |-> MissingGroup(AbsentFill(v)), out |-> go,
               neg |-> MissingGroup(AbsentFill(v))] : go \in LoadedGroups(v)}
        \cup {[in |-> gi, out |-> go] : gi \in joined, go \in LoadedGroups(v)}

\* a / b inside safe_divide's try block.  The row's values are Python
\* floats and ints: a NA operand gives NA, a zero divisor raises
\* ZeroDivisionError (also under a NaN numerator), which yields `default`.
SafeDivide_nan(a, b, default) ==
    IF a = None \/ b = None THEN None
    ELSE IF a = NA \/ b = NA THEN NA
    ELSE IF a = NaN \/ b = NaN THEN NaN
    ELSE IF b = Zero THEN default
    ELSE Num(a.n * b.d, a.d * b.n)
SafeDivide(a, b, default) ==
    IF a = None \/ b = None THEN None
    ELSE IF a = NA \/ b = NA THEN NA
    ELSE IF b = Zero THEN default
    ELSE IF a = NaN \/ b = NaN THEN NaN
    ELSE Num(a.n * b.d, a.d * b.n)

\* `x > 0` as the condition of an if: None > 0 raises TypeError, and so does
\* the truth value of NA > 0; NaN > 0 is False.
Raises(x) == x.k \in {"None", "NA"}
Gt0(x) == x.k = "num" /\ x.n > 0

\* line 457: `if enr_post_max > 0:  # Makes sense to print enr_post`
MakesSenseToPrint_ge(x) == x.k = "num" /\ x.n >= 0
MakesSenseToPrint_always(x) == TRUE
MakesSenseToPrint(x) == Gt0(x)

\* lines 435-455: the four bounds of process_enrichments for a row
EnrPostMin(row) ==
    IF Gt0(row.in.Freq_Lower)
    THEN SafeDivide(row.out.Freq_Lower, row.in.Freq_Upper, Zero) ELSE Zero
EnrPostMax(row) ==
    IF Gt0(row.in.Freq_Lower)
    THEN SafeDivide(row.out.Freq_Upper, row.in.Freq_Lower, Zero) ELSE Zero
EnrNegMin(row) ==
    IF ~Gt0(row.in.Freq_Lower) THEN Zero
    ELSE IF "neg" \in DOMAIN row
    THEN SafeDivide(row.neg.Freq_Lower, row.in.Freq_Upper, Zero) ELSE None
EnrNegMax(row) ==
    IF ~Gt0(row.in.Freq_Lower) THEN Zero
    ELSE IF "neg" \in DOMAIN row
    THEN SafeDivide(row.neg.Freq_Upper, row.in.Freq_Lower, Zero) ELSE None

NoEnrichments ==
    [raised |-> TRUE,
     Enr_out |-> None, Enr_out_lower |-> None, Enr_out_upper |-> None,
     Enr_neg |-> None, Enr_neg_lower |-> None, Enr_neg_upper |-> None,
     Enr_ratio |-> None, Enr_ratio_lower |-> None, Enr_ratio_upper |-> None]

\* process_enrichments(row): the dict it returns, or raised = TRUE when one
\* of its conditions raises TypeError
ProcessEnrichments(row) ==
    LET include_negative == "neg" \in DOMAIN row
        gate == Gt0(row.in.Freq_Lower)
        enr_post_min == IF gate THEN SafeDivide(row.out.Freq_Lower, row.in.Freq_Upper, Zero)
                        ELSE Zero
        enr_post_max == IF gate THEN SafeDivide(row.out.Freq_Upper, row.in.Freq_Lower, Zero)
                        ELSE Zero
        enr_neg_min == IF ~gate THEN Zero
                       ELSE IF include_negative
                       THEN SafeDivide(row.neg.Freq_Lower, row.in.Freq_Upper, Zero)
                       ELSE None
        enr_neg_max == IF ~gate THEN Zero
                       ELSE IF include_negative
                       THEN SafeDivide(row.neg.Freq_Upper, row.in.Freq_Lower, Zero)
                       ELSE None
        enr_post == IF MakesSenseToPrint(enr_post_max)
                    THEN SafeDivide(row.out.Freq, row.in.Freq, Zero) ELSE None
        enr_neg == IF include_negative /\ Gt0(enr_neg_max)
                   THEN SafeDivide(row.neg.Freq, row.in.Freq, Zero) ELSE None
        ratio == Gt0(enr_neg_max) /\ Gt0(enr_neg_min)
        raised == \/ Raises(row.in.Freq_Lower)
                  \/ Raises(enr_post_max)
                  \/ include_negative /\ Raises(enr_neg_max)
                  \/ Raises(enr_neg_max)
                  \/ Gt0(enr_neg_max) /\ Raises(enr_neg_min)
    IN  IF raised THEN NoEnrichments
        ELSE [raised |-> FALSE,
              Enr_out |-> enr_post,
              Enr_out_lower |-> IF enr_post = None THEN None ELSE enr_post_min,
              Enr_out_upper |-> IF enr_post = None THEN None ELSE enr_post_max,
              Enr_neg |-> enr_neg,
              Enr_neg_lower |-> IF enr_neg = None THEN None ELSE enr_neg_min,
              Enr_neg_upper |-> IF enr_neg = None THEN None ELSE enr_neg_max,
              Enr_ratio |-> SafeDivide(enr_post, enr_neg, Zero),
              Enr_ratio_lower |-> IF ratio THEN SafeDivide(enr_post_min, enr_neg_max, Zero)
                                  ELSE None,
              Enr_ratio_upper |-> IF ratio THEN SafeDivide(enr_post_max, enr_neg_min, Zero)
                                  ELSE None]

\* round_df.apply(process_enrichments, axis = 1) reaches the row
ApplyEnrichments ==
    /\ epc = "row"
    /\ eres' = ProcessEnrichments(erow)
    /\ epc' = "done"
    /\ UNCHANGED <<evariant, erow>>
    /\ UNCHANGED notEnr

EnrInit ==
    /\ epc = "row"
    /\ evariant \in EnrVariants
    /\ erow \in EnrRows(evariant)
    /\ eres = NoEnrichments

\* process_enrichments is not run
EnrOff ==
    /\ epc = "off" /\ evariant = "main" /\ erow = <<>> /\ eres = NoEnrichments

EnrNext == ApplyEnrichments

-----------------------------------------------------------------------------
(* SpecRun: find_enrichments of src/modified_counts.py over one counts     *)
(* folder.  The files of a round are read when the round is processed.     *)

MaxRound == 2       \* largest round_number of the sorting table
MaxCount == 2       \* largest Count of a row of an out file

SeqOrder == <<"A", "B">>
Seqs == {SeqOrder[i] : i \in 1..Len(SeqOrder)}

\* no file found (get_first_matching_file gave None), and the table the
\* loader gives for it (None)
NoFile == <<>>

\* a counts file: rows of Sequence and Count, a sequence at most once
CountsFiles ==
    UNION {{f \in [1..n -> [Sequence : Seqs, Count : 1..MaxCount]] :
              \A i, j \in 1..n : i # j => f[i].Sequence # f[j].Sequence} :
           n \in 1..Cardinality(Seqs)}

\* the in and neg files of the model: every Count 1, rows in SeqOrder
SideFiles ==
    {f \in CountsFiles :
        /\ \A i \in 1..Len(f) : f[i].Count = 1
        /\ \A i \in 1..(Len(f) - 1) :
             \E a, b \in 1..Len(SeqOrder) :
                a < b /\ SeqOrder[a] = f[i].Sequence /\ SeqOrder[b] = f[i + 1].Sequence}

RECURSIVE SumCounts(_)
SumCounts(f) == IF f = <<>> THEN 0 ELSE Head(f).Count + SumCounts(Tail(f))

\* the sample the generator yields in SpecRun: every draw equals the count
ExpectedSample(count) == [i \in 1..BootDepth |-> count]

\* easy_diver_counts_to_df(filename, i, ftype) of src/modified_counts.py:
\* None for no file, else one CountRecord per row; the header's totals are
\* those of the body
LoadTable(file) ==
    IF file = NoFile THEN NoFile
    ELSE [i \in 1..Len(file) |->
            [Sequence |-> file[i].Sequence,
             g |-> CountRecord(SumCounts(file), Len(file), file[i].Count,
                               Bootstrapped95CI(ExpectedSample(file[i].Count)))]]

SeqsOf(df) == {df[i].Sequence : i \in 1..Len(df)}

\* the columns of df for the row of sequence s; NaN when it has none
GroupOf(df, s) ==
    IF s \in SeqsOf(df)
    THEN df[CHOOSE i \in 1..Len(df) : df[i].Sequence = s].g
    ELSE MissingGroup(NaN)

\* the keys of pd.merge(left, right, on = 'Sequence', how = 'left'): the
\* left table's, in its order (sequences are unique in a table)
MergeKeys_outer(left, right) ==
    LET extra == {i \in 1..Len(right) : right[i] \notin {left[j] : j \in 1..Len(left)}}
    IN  left \o [k \in 1..Cardinality(extra) |->
                    right[CHOOSE i \in extra :
                            Cardinality({j \in extra : j < i}) = k - 1]]
MergeKeys(left, right) == left

KeysOf(df) == [i \in 1..Len(df) |-> df[i].Sequence]

\* merge_data_for_rounds up to the sort: the joined rows, each with its
\* index label.  The joins count only when both other tables are given;
\* else the out table alone is kept (line 548's else belongs to the second if).
JoinedRows(out_df, in_df, neg_df) ==
    LET both == in_df # NoFile /\ neg_df # NoFile
        keys == IF both
                THEN MergeKeys(MergeKeys(KeysOf(out_df), KeysOf(in_df)), KeysOf(neg_df))
                ELSE KeysOf(out_df)
    IN  [i \in 1..Len(keys) |->
            IF both
            THEN [index |-> i - 1, Sequence |-> keys[i],
                  out |-> GroupOf(out_df, keys[i]),
                  in |-> GroupOf(in_df, keys[i]),
                  neg |-> GroupOf(neg_df, keys[i])]
            ELSE [index |-> i - 1, Sequence |-> keys[i],
                  out |-> GroupOf(out_df, keys[i])]]

\* lines 576-583: a group without columns gets them, filled with NaN
FillGroups(row) ==
    [index |-> row.index, Sequence |-> row.Sequence, out |-> row.out,
     in |-> IF "in" \in DOMAIN row THEN row.in ELSE MissingGroup(AbsentFill("main")),
     neg |-> IF "neg" \in DOMAIN row THEN row.neg ELSE MissingGroup(AbsentFill("main"))]

\* sort_values(by = 'Count_out', ascending = False): the orders of the rows
\* with Count_out descending, NaN last; rows with equal keys in any order
\* (the default quicksort is not stable)
SortKey(row) == IF IsNum(row.out.Count) THEN AsInt(row.out.Count) + 1 ELSE 0
SortOrders(rows) ==
    {p \in [1..Len(rows) -> 1..Len(rows)] :
        /\ \A i, j \in 1..Len(rows) : i # j => p[i] # p[j]
        /\ \A i \in 1..(Len(rows) - 1) : SortKey(rows[p[i]]) >= SortKey(rows[p[i + 1]])}

\* base_encode(sequence_number): "seq_" and the Base58 digits
Chars58 == <<"1", "2", "3", "4", "5", "6", "7", "8", "9",
             "A", "B", "C", "D", "E", "F", "G", "H", "J", "K", "L", "M", "N",
             "P", "Q", "R", "S", "T", "U", "V", "W", "X", "Y", "Z",
             "a", "b", "c", "d", "e", "f", "g", "h", "i", "j", "k", "m", "n",
             "o", "p", "q", "r", "s", "t", "u", "v", "w", "x", "y", "z">>
RECURSIVE Encoded(_)
Encoded(n) == IF n = 0 THEN ""
              ELSE Encoded(n \div Len(Chars58)) \o Chars58[(n % Len(Chars58)) + 1]
base_encode(sequence_number) ==
    IF sequence_number = 0 THEN "seq_" \o Chars58[1]
    ELSE "seq_" \o Encoded(sequence_number)

\* sorted_df.apply(unique_sequence_name_generator, axis = 1, sequence_dict):
\* row by row, a known sequence keeps its name, a new one is named by
\* base_encode(int(row.name)), row.name being the row's index label
RECURSIVE WithNames(_, _)
WithNames(rows, dict) ==
    IF rows = <<>> THEN [rows |-> <<>>, dict |-> dict]
    ELSE LET row == Head(rows)
             known == row.Sequence \in DOMAIN dict
             name == IF known THEN dict[row.Sequence] ELSE base_encode(row.index)
             dict1 == IF known THEN dict ELSE dict @@ (row.Sequence :> name)
             rest == WithNames(Tail(rows), dict1)
         IN  [rows |-> <<[Unique_Sequence_Name |-> name, Sequence |-> row.Sequence,
                          out |-> row.out, in |-> row.in, neg |-> row.neg]>> \o rest.rows,
              dict |-> rest.dict]

\* the sequences of the rows, in the rows' order, that sequence_dict does
\* not hold yet: those unique_sequence_name_generator gives a new name
RECURSIVE FirstSeen(_, _)
FirstSeen(rows, dict) ==
    IF rows = <<>> THEN <<>>
    ELSE IF Head(rows).Sequence \in DOMAIN dict THEN FirstSeen(Tail(rows), dict)
    ELSE <<Head(rows).Sequence>> \o FirstSeen(Tail(rows), dict)

\* the merged row as returned: reset_index(drop = True) drops the label
ResetIndex(row) == [f \in (DOMAIN row) \ {"index"} |-> row[f]]

\* merge_data_for_rounds(out_df, sequence_dict, in_df, neg_df) with the rows
\* sorted in order p: the table returned and the dictionary as it leaves it
MergeDataForRounds(out_df, dict, in_df, neg_df, p) ==
    LET joined == JoinedRows(out_df, in_df, neg_df)
        sorted_df == [i \in 1..Len(joined) |-> joined[p[i]]]
        nm == WithNames([i \in 1..Len(sorted_df) |-> FillGroups(sorted_df[i])], dict)
    IN  [rows |-> [i \in 1..Len(nm.rows) |-> ResetIndex(nm.rows[i])], dict |-> nm.dict]

\* enrich_and_write lines 652-657: a Count column is fillna(0).astype(int),
\* a Freq column fillna(0); the float format of to_csv is not modelled
WrittenCount(x) == IF IsNum(x) THEN Num(AsInt(x), 1) ELSE Zero
WrittenFreq(x) == IF IsNum(x) THEN x ELSE Zero
WrittenGroup(g) ==
    [Count |-> WrittenCount(g.Count), Count_Lower |-> WrittenCount(g.Count_Lower),
     Count_Upper |-> WrittenCount(g.Count_Upper), Freq |-> WrittenFreq(g.Freq),
     Freq_Lower |-> WrittenFreq(g.Freq_Lower), Freq_Upper |-> WrittenFreq(g.Freq_Upper)]

\* an Enr cell of the csv: None and NaN are written as the empty field
EmptyField == [k |-> "empty", n |-> 0, d |-> 1]
EnrField(x) == IF IsNum(x) THEN x ELSE EmptyField

\* final_df[final_columns] for one row and its enrichments e
WrittenRow(row, e, include_negative) ==
    LET base == [Unique_Sequence_Name |-> row.Unique_Sequence_Name,
                 Sequence |-> row.Sequence,
                 in |-> WrittenGroup(row.in), out |-> WrittenGroup(row.out),
                 Enr_out |-> EnrField(e.Enr_out),
                 Enr_out_lower |-> EnrField(e.Enr_out_lower),
                 Enr_out_upper |-> EnrField(e.Enr_out_upper)]
    IN  IF include_negative
        THEN base @@ [neg |-> WrittenGroup(row.neg),
                      Enr_neg |-> EnrField(e.Enr_neg),
                      Enr_neg_lower |-> EnrField(e.Enr_neg_lower),
                      Enr_neg_upper |-> EnrField(e.Enr_neg_upper),
                      Enr_ratio |-> EnrField(e.Enr_ratio),
                      Enr_ratio_lower |-> EnrField(e.Enr_ratio_lower),
                      Enr_ratio_upper |-> EnrField(e.Enr_ratio_upper)]
        ELSE base

\* enrich_and_write(round_df, prefix, precision, include_negative): the rows
\* written; raised when process_enrichments raises on a row
EnrichAndWrite(round_df, include_negative) ==
    LET enrichments_df == [i \in 1..Len(round_df) |-> ProcessEnrichments(round_df[i])]
    IN  [raised |-> \E i \in 1..Len(round_df) : enrichments_df[i].raised,
         rows |-> [i \in 1..Len(round_df) |->
                     WrittenRow(round_df[i], enrichments_df[i], include_negative)]]

\* lines 637-651: extras and extra_header: for each file type the two
\* totals, each taken from row 0 of final_df after fillna(0).astype(int)
ExtraHeader(final_df) ==
    [seq_in |-> WrittenCount(final_df[1].in.Total_Unique_Sequences),
     mol_in |-> WrittenCount(final_df[1].in.Total_Molecules),
     seq_out |-> WrittenCount(final_df[1].out.Total_Unique_Sequences),
     mol_out |-> WrittenCount(final_df[1].out.Total_Molecules),
     seq_neg |-> WrittenCount(final_df[1].neg.Total_Unique_Sequences),
     mol_neg |-> WrittenCount(final_df[1].neg.Total_Molecules)]

NoHeader == <<>>

NoFiles == [in_listed |-> FALSE, in |-> NoFile, out |-> NoFile, neg |-> NoFile]

\* one iteration of the loop over rounds whose out file is found
ProcessRound ==
    /\ rpc = "round"
    /\ \E out_file \in CountsFiles, in_found \in SideFiles \cup {NoFile},
          neg_file \in (IF neg_files_exist THEN SideFiles \cup {NoFile} ELSE {NoFile}) :
         \E in_file \in {IF in_found = NoFile /\ round_i > 1 THEN prev_out ELSE in_found} :
         \E out_df \in {LoadTable(out_file)}, in_df \in {LoadTable(in_file)},
            neg_df \in {LoadTable(neg_file)} :
         \E p \in SortOrders(JoinedRows(out_df, in_df, neg_df)) :
         \E m \in {MergeDataForRounds(out_df, unique_sequence_dict, in_df, neg_df, p)} :
         \E w \in {EnrichAndWrite(m.rows, neg_files_exist)} :
            /\ rfiles' = [in_listed |-> in_found # NoFile, in |-> in_file,
                          out |-> out_file, neg |-> neg_file]
            /\ merged_data' = m.rows
            /\ unique_sequence_dict' = m.dict
            /\ named' = [s \in Seqs |->
                           named[s] \cup {m.rows[i].Unique_Sequence_Name :
                                            i \in {j \in 1..Len(m.rows) :
                                                     m.rows[j].Sequence = s}}]
            /\ encountered' = encountered \o FirstSeen(m.rows, unique_sequence_dict)
            /\ written' = IF w.raised THEN <<>> ELSE w.rows
            /\ extra_header' = IF w.raised THEN NoHeader ELSE ExtraHeader(m.rows)
            /\ rpc' = IF w.raised THEN "crashed" ELSE "merged"
    /\ UNCHANGED <<round_i, max_round, neg_files_exist, prev_out>>
    /\ UNCHANGED notRun

\* one iteration whose out file is not found: out_df is None and
\* merge_data_for_rounds raises TypeError on out_df[columns_to_keep]
ProcessRoundNoOut ==
    /\ rpc = "round"
    /\ rpc' = "crashed"
    /\ UNCHANGED <<round_i, max_round, neg_files_exist, prev_out, rfiles,
                   unique_sequence_dict, merged_data, written, extra_header, named, encountered>>
    /\ UNCHANGED notRun

\* the loop goes on to round i + 1
NextRound ==
    /\ rpc = "merged" /\ round_i < max_round
    /\ rpc' = "round"
    /\ round_i' = round_i + 1
    /\ prev_out' = rfiles.out
    /\ rfiles' = NoFiles
    /\ merged_data' = <<>>
    /\ written' = <<>>
    /\ extra_header' = NoHeader
    /\ UNCHANGED <<max_round, neg_files_exist, unique_sequence_dict, named, encountered>>
    /\ UNCHANGED notRun

\* the loop ends after round max_round
FinishRounds ==
    /\ rpc = "merged" /\ round_i = max_round
    /\ rpc' = "done"
    /\ prev_out' = NoFile
    /\ rfiles' = NoFiles
    /\ merged_data' = <<>>
    /\ written' = <<>>
    /\ extra_header' = NoHeader
    /\ UNCHANGED <<round_i, max_round, neg_files_exist, unique_sequence_dict, named, encountered>>
    /\ UNCHANGED notRun

RunInit ==
    /\ rpc = "round"
    /\ round_i = 1
    /\ max_round \in 1..MaxRound
    /\ neg_files_exist \in BOOLEAN
    /\ prev_out = NoFile
    /\ rfiles = NoFiles
    /\ unique_sequence_dict = <<>>
    /\ merged_data = <<>>
    /\ written = <<>>
    /\ extra_header = NoHeader
    /\ named = [s \in Seqs |-> {}]
    /\ encountered = <<>>

\* find_enrichments is not run
RunOff ==
    /\ rpc = "off" /\ round_i = 0 /\ max_round = 0 /\ neg_files_exist = FALSE
    /\ prev_out = NoFile /\ rfiles = NoFiles /\ unique_sequence_dict = <<>>
    /\ merged_data = <<>> /\ written = <<>> /\ extra_header = NoHeader /\ named = <<>>
    /\ encountered = <<>>

RunNext == ProcessRound \/ ProcessRoundNoOut \/ NextRound \/ FinishRounds

-----------------------------------------------------------------------------
(* SpecWrite: the file steps of enrich_and_write (write_output_file of     *)
(* seq_names_and_bootstrap.py takes the same steps) beside a reader of the *)
(* destination.  A file is [exists, data]; data is the sequence of the     *)
(* chunks that have reached it.                                            *)

MaxChunks == 2      \* chunks (buffer flushes) a complete file is written in

AbsentFile == [exists |-> FALSE, data |-> <<>>]
EmptyFile == [exists |-> TRUE, data |-> <<>>]

\* a complete file of n chunks written by run `gen`
CompleteFile(gen, n) == [exists |-> TRUE, data |-> [i \in 1..n |-> [gen |-> gen, part |-> i]]]

\* what the destination can be before the call: nothing, or the complete
\* result of an earlier run
OldFiles == {AbsentFile} \cup {CompleteFile("old", n) : n \in 1..MaxChunks}

\* final_df[final_columns].to_csv(file_prefix + 'temp.csv'): the temporary
\* file is created (or truncated)
ToCsvOpen ==
    /\ wpc = "to_csv"
    /\ temp' = EmptyFile
    /\ wpc' = "to_csv_write"
    /\ UNCHANGED <<nchunks, old_dest, dest, original_content, observed, wreturn>>
    /\ UNCHANGED notWrite

\* to_csv writes the table, chunk by chunk, and closes the file
ToCsvWrite ==
    /\ wpc = "to_csv_write"
    /\ IF Len(temp.data) < nchunks
       THEN /\ temp' = [temp EXCEPT !.data = Append(@, [gen |-> "new", part |-> Len(@) + 1])]
            /\ wpc' = wpc
       ELSE /\ temp' = temp
            /\ wpc' = "read_temp"
    /\ UNCHANGED <<nchunks, old_dest, dest, original_content, observed, wreturn>>
    /\ UNCHANGED notWrite

\* original_content = original_file.read()
ReadTemp ==
    /\ wpc = "read_temp"
    /\ original_content' = temp.data
    /\ wpc' = "open_dest"
    /\ UNCHANGED <<nchunks, old_dest, dest, temp, observed, wreturn>>
    /\ UNCHANGED notWrite

\* open(file_prefix + '.csv', 'w'): the destination is created, or
\* truncated to length 0, in place
OpenDest(d) == EmptyFile

OpenDestination ==
    /\ wpc = "open_dest"
    /\ dest' = OpenDest(dest)
    /\ wpc' = "write_dest"
    /\ UNCHANGED <<nchunks, old_dest, temp, original_content, observed, wreturn>>
    /\ UNCHANGED notWrite

\* new_file.write(extra_header + '\n' + original_content) and the close at
\* the end of the with block: the content reaches the file chunk by chunk
\* (the first chunk starts with the header block)
WriteDestination ==
    /\ wpc = "write_dest"
    /\ IF Len(dest.data) < Len(original_content)
       THEN /\ dest' = [dest EXCEPT !.data = Append(@, original_content[Len(@) + 1])]
            /\ wpc' = wpc
       ELSE /\ dest' = dest
            /\ wpc' = "remove_temp"
    /\ UNCHANGED <<nchunks, old_dest, temp, original_content, observed, wreturn>>
    /\ UNCHANGED notWrite

\* os.remove(file_prefix + 'temp.csv'); return True
RemoveTemp ==
    /\ wpc = "remove_temp"
    /\ temp' = AbsentFile
    /\ wpc' = "returned"
    /\ wreturn' = "True"
    /\ UNCHANGED <<nchunks, old_dest, dest, original_content, observed>>
    /\ UNCHANGED notWrite

\* a step raises OSError: the except clause prints and returns False, the
\* files stay as they are
WriteFails ==
    /\ wpc \in {"to_csv", "to_csv_write", "read_temp", "open_dest", "write_dest",
                "remove_temp"}
    /\ wpc' = "returned"
    /\ wreturn' = "False"
    /\ UNCHANGED <<nchunks, old_dest, dest, temp, original_content, observed>>
    /\ UNCHANGED notWrite

\* another process reads the destination
ReaderReads ==
    /\ wpc # "off"
    /\ observed' = dest
    /\ UNCHANGED <<wpc, nchunks, old_dest, dest, temp, original_content, wreturn>>
    /\ UNCHANGED notWrite

WriteInit ==
    /\ wpc = "to_csv"
    /\ nchunks \in 1..MaxChunks
    /\ old_dest \in OldFiles
    /\ dest = old_dest
    /\ temp = AbsentFile
    /\ original_content = <<>>
    /\ observed = old_dest
    /\ wreturn = "None"

\* enrich_and_write is not writing
WriteOff ==
    /\ wpc = "off" /\ nchunks = 0 /\ old_dest = AbsentFile /\ dest = AbsentFile
    /\ temp = AbsentFile /\ original_content = <<>> /\ observed = AbsentFile
    /\ wreturn = "None"

WriteNext ==
    \/ ToCsvOpen \/ ToCsvWrite \/ ReadTemp \/ OpenDestination \/ WriteDestination
    \/ RemoveTemp \/ WriteFails \/ ReaderReads

-----------------------------------------------------------------------------
(* SpecNames: two invocations of main of src/seq_names_and_bootstrap.py    *)
(* that are given the same -seqdict file, their steps interleaved.  The    *)
(* bootstrap each invocation runs on its counts file is SpecBoot's.        *)

MaxOldNames == 1    \* assignments the dictionary file holds before the runs

Procs == {1, 2}
Prefixes == {"nt", "aa"}

\* base_encode(sequence_number, prefix) of seq_names_and_bootstrap.py
base_encode2(sequence_number, prefix) ==
    IF sequence_number = 0 THEN prefix \o "_" \o Chars58[1]
    ELSE prefix \o "_" \o Encoded(sequence_number)

\* the Sequence column of a counts file: distinct sequences
NameFiles ==
    UNION {{f \in [1..n -> Seqs] : \A i, j \in 1..n : i # j => f[i] # f[j]} :
           n \in 1..Cardinality(Seqs)}

\* the dictionary an earlier invocation left after naming the first k
\* sequences of SeqOrder
OldDict(k) == [s \in {SeqOrder[i] : i \in 1..k} |->
                 base_encode2(CHOOSE i \in 1..k : SeqOrder[i] = s, "nt")]

\* counts_df.apply(unique_sequence_name_generator, axis = 1, sequence_dict,
\* prefix): a known sequence keeps its name, a new one is named by
\* base_encode(len(sequence_dict) + 1, prefix) and stored
RECURSIVE NamedRows(_, _, _)
NamedRows(seqs, dict, prefix) ==
    IF seqs = <<>> THEN [rows |-> <<>>, dict |-> dict]
    ELSE LET known == Head(seqs) \in DOMAIN dict
             encoded_name == IF known THEN dict[Head(seqs)]
                             ELSE base_encode2(Cardinality(DOMAIN dict) + 1, prefix)
             dict1 == IF known THEN dict ELSE dict @@ (Head(seqs) :> encoded_name)
             rest == NamedRows(Tail(seqs), dict1, prefix)
         IN  [rows |-> <<[Sequence |-> Head(seqs), Unique_Sequence_Name |-> encoded_name]>>
                          \o rest.rows,
              dict |-> rest.dict]

\* lines 365-367: json.load(json_file); a file another invocation has
\* opened for writing and not yet written is empty: JSONDecodeError
LoadSeqDict(p) ==
    /\ npc[p] = "load"
    /\ IF seq_dict_file.complete
       THEN /\ sequence_dict' = [sequence_dict EXCEPT ![p] = seq_dict_file.dict]
            /\ npc' = [npc EXCEPT ![p] = "rows"]
       ELSE /\ npc' = [npc EXCEPT ![p] = "crashed"]
            /\ UNCHANGED sequence_dict
    /\ UNCHANGED <<nprefix, ncounts, seq_dict_file, noutput>>
    /\ UNCHANGED notName

\* lines 373-388: the table is loaded, its rows are named and the output
\* file is written
NameRows(p) ==
    /\ npc[p] = "rows"
    /\ \E r \in {NamedRows(ncounts[p], sequence_dict[p], nprefix[p])} :
         /\ sequence_dict' = [sequence_dict EXCEPT ![p] = r.dict]
         /\ noutput' = [noutput EXCEPT ![p] = r.rows]
    /\ npc' = [npc EXCEPT ![p] = "open"]
    /\ UNCHANGED <<nprefix, ncounts, seq_dict_file>>
    /\ UNCHANGED notName

\* line 390: open(seq_dict_path, "w"): the file is truncated
OpenSeqDict(p) ==
    /\ npc[p] = "open"
    /\ seq_dict_file' = [complete |-> FALSE, dict |-> <<>>]
    /\ npc' = [npc EXCEPT ![p] = "dump"]
    /\ UNCHANGED <<nprefix, ncounts, sequence_dict, noutput>>
    /\ UNCHANGED notName

\* line 391: json.dump(sequence_dict, json_file) and the close: the file
\* holds this invocation's dictionary (two overlapping dumps are taken to
\* leave the later one's text)
DumpSeqDict(p) ==
    /\ npc[p] = "dump"
    /\ seq_dict_file' = [complete |-> TRUE, dict |-> sequence_dict[p]]
    /\ npc' = [npc EXCEPT ![p] = "done"]
    /\ UNCHANGED <<nprefix, ncounts, sequence_dict, noutput>>
    /\ UNCHANGED notName

NameInit ==
    /\ npc = [p \in Procs |-> "load"]
    /\ nprefix \in [Procs -> Prefixes]
    /\ ncounts \in [Procs -> NameFiles]
    /\ \E k \in 0..MaxOldNames : seq_dict_file = [complete |-> TRUE, dict |-> OldDict(k)]
    /\ sequence_dict = [p \in Procs |-> <<>>]
    /\ noutput = [p \in Procs |-> <<>>]

\* the command is not run
NameOff ==
    /\ npc = <<>> /\ nprefix = <<>> /\ ncounts = <<>>
    /\ seq_dict_file = [complete |-> TRUE, dict |-> <<>>]
    /\ sequence_dict = <<>> /\ noutput = <<>>

NameNext ==
    \E p \in Procs : LoadSeqDict(p) \/ NameRows(p) \/ OpenSeqDict(p) \/ DumpSeqDict(p)

-----------------------------------------------------------------------------
(* SpecDirs: find_enrichments of src/easy_diver_2_gui/modified_counts.py   *)
(* over the folders counts and counts_aa.  What a round computes is        *)
(* SpecRun's and SpecEnr's matter: here a round whose post file is found   *)
(* either is written or raises.                                            *)

MaxDirRound == 2    \* largest round_number of the sorting table in SpecDirs

FileNames == {"a", "b"}
FileTypes == {"post", "pre", "negative"}
Folders == {1, 2}

\* os.path.isdir(counts_dir) is False
NoDir == <<"no directory">>

\* the sorting tables: a row per listed file, a file listed once
SortingTables ==
    UNION {{t \in [1..n -> [filename : FileNames, round_number : 1..MaxDirRound,
                            file_type : FileTypes]] :
              \A i, j \in 1..n : i # j => t[i].filename # t[j].filename} :
           n \in 1..Cardinality(FileNames)}

\* the listings of a folder, each file name cut at "_counts": the files in
\* any number up to Cardinality(FileNames), as a sequence in name order
Listings ==
    UNION {{l \in [1..n -> FileNames] :
              \A i \in 1..(n - 1) : l[i] = "a" \/ l[i + 1] = "b"} :
           n \in 0..Cardinality(FileNames)}

\* collections.Counter of a list of names
Counter(list) == [x \in FileNames |-> Cardinality({i \in 1..Len(list) : list[i] = x})]

\* check_rounds_file(rounds_df, counts_dir)
check_rounds_file_passes(rounds_df, files) == TRUE
check_rounds_file(rounds_df, files) ==
    Counter([i \in 1..Len(rounds_df) |-> rounds_df[i].filename]) = Counter(files)

\* get_first_matching_file(counts_dir, rounds_df, file_type, round_num) finds
\* a file: the first row of that type and round names a file of the folder
FoundFile(rounds_df, files, file_type, round_num) ==
    LET rows == {i \in 1..Len(rounds_df) :
                    /\ rounds_df[i].file_type = file_type
                    /\ rounds_df[i].round_number = round_num}
    IN  /\ rows # {}
        /\ \E j \in 1..Len(files) :
             files[j] = rounds_df[CHOOSE i \in rows : \A k \in rows : i <= k].filename

\* rounds_data['round_number'].max()
DirMaxRound == CHOOSE m \in 1..MaxDirRound :
    /\ \E i \in 1..Len(rounds_data) : rounds_data[i].round_number = m
    /\ \A i \in 1..Len(rounds_data) : rounds_data[i].round_number <= m

\* lines 645-647: the folder is no directory: continue
SkipNoDir ==
    /\ dpc = "folder" /\ ind \in Folders
    /\ counts_listing[ind] = NoDir
    /\ ind' = ind + 1
    /\ UNCHANGED <<dpc, rounds_data, counts_listing, dround, dround_files, dpivot>>
    /\ UNCHANGED notDirs

\* lines 649-653: check_rounds_file is False: print and continue
SkipInconsistent ==
    /\ dpc = "folder" /\ ind \in Folders
    /\ counts_listing[ind] # NoDir
    /\ ~check_rounds_file(rounds_data, counts_listing[ind])
    /\ ind' = ind + 1
    /\ UNCHANGED <<dpc, rounds_data, counts_listing, dround, dround_files, dpivot>>
    /\ UNCHANGED notDirs

\* lines 655-664: the check passed: the loop over rounds starts
EnterRounds ==
    /\ dpc = "folder" /\ ind \in Folders
    /\ counts_listing[ind] # NoDir
    /\ check_rounds_file(rounds_data, counts_listing[ind])
    /\ dpc' = "rounds"
    /\ dround' = 1
    /\ UNCHANGED <<ind, rounds_data, counts_listing, dround_files, dpivot>>
    /\ UNCHANGED notDirs

\* lines 665-688: round i is merged, enriched and written
DirRoundWritten ==
    /\ dpc = "rounds" /\ dround <= DirMaxRound
    /\ FoundFile(rounds_data, counts_listing[ind], "post", dround)
    /\ dround_files' = [dround_files EXCEPT ![ind] = @ \cup {dround}]
    /\ dround' = dround + 1
    /\ UNCHANGED <<dpc, ind, rounds_data, counts_listing, dpivot>>
    /\ UNCHANGED notDirs

\* lines 665-685: round i raises, in merge_data_for_rounds when no post file
\* is found, else in process_enrichments on some row; nothing catches it
DirRoundRaises ==
    /\ dpc = "rounds" /\ dround <= DirMaxRound
    /\ dpc' = "crashed"
    /\ UNCHANGED <<ind, rounds_data, counts_listing, dround, dround_files, dpivot>>
    /\ UNCHANGED notDirs

\* lines 690-695: after the last round write_enrichments_final_output
\* writes the folder's pivot tables
DirFinalOutput ==
    /\ dpc = "rounds" /\ dround > DirMaxRound
    /\ dpivot' = [dpivot EXCEPT ![ind] = TRUE]
    /\ dpc' = "folder"
    /\ ind' = ind + 1
    /\ dround' = 0
    /\ UNCHANGED <<rounds_data, counts_listing, dround_files>>
    /\ UNCHANGED notDirs

\* line 696: return True
DirsReturn ==
    /\ dpc = "folder" /\ ind \notin Folders
    /\ dpc' = "returned"
    /\ UNCHANGED <<ind, rounds_data, counts_listing, dround, dround_files, dpivot>>
    /\ UNCHANGED notDirs

DirsInit ==
    /\ dpc = "folder"
    /\ ind = 1
    /\ rounds_data \in SortingTables
    /\ counts_listing \in [Folders -> Listings \cup {NoDir}]
    /\ dround = 0
    /\ dround_files = [f \in Folders |-> {}]
    /\ dpivot = [f \in Folders |-> FALSE]

\* find_enrichments of easy_diver_2_gui is not run
DirsOff ==
    /\ dpc = "off" /\ ind = 0 /\ rounds_data = <<>> /\ counts_listing = <<>>
    /\ dround = 0 /\ dround_files = <<>> /\ dpivot = <<>>

DirsNext ==
    \/ SkipNoDir \/ SkipInconsistent \/ EnterRounds \/ DirRoundWritten
    \/ DirRoundRaises \/ DirFinalOutput \/ DirsReturn

-----------------------------------------------------------------------------
(* SpecPivot: write_enrichments_final_output over a directory that holds   *)
(* the result files of rounds 1..N.  Of the metric columns two are         *)
(* modelled, an enrichment and a frequency: Enr_out and Freq_in            *)
(* (Enr_post and Freq_pre in easy_diver_2_gui); the others are handled by  *)
(* the same statements.  Text is a sequence of character codes.            *)

MaxPivotRound == 2  \* result files in the directory
MaxPivotCount == 2  \* largest Count_in of a row
PivotTotal == 20    \* Total_Molecules of the in tables
PivotPrecision == 2 \* precision (the code's default is 6)

RECURSIVE Pow10(_)
Pow10(p) == IF p = 0 THEN 1 ELSE 10 * Pow10(p - 1)

\* the number x in units of 10^-p, as "%.pf" rounds it
Scaled(x, p) == RoundHalfEven(x.n * Pow10(p), x.d)

RECURSIVE Digits(_)
Digits(n) == IF n < 10 THEN <<48 + n>> ELSE Digits(n \div 10) \o <<48 + (n % 10)>>

\* f"{x:.{p}f}" and to_csv's float_format "%.pf": the text of x
FormatFixed(x, p) ==
    Digits(Scaled(x, p) \div Pow10(p))
        \o (IF p = 0 THEN <<>>
            ELSE <<46>> \o [i \in 1..p |-> 48 + ((Scaled(x, p) \div Pow10(p - i)) % 10)])

\* the cells of a table read by pd.read_csv: a float, NaN for an empty
\* field, or the text of a field that is no number
NumCell(x) == [k |-> "num", n |-> x.n, d |-> x.d, text |-> <<>>]
NaNCell == [k |-> "nan", n |-> 0, d |-> 1, text |-> <<>>]
StrCell(text) == [k |-> "str", n |-> 0, d |-> 1, text |-> text]

\* a float written with float_format "%.pf" and read back
ReadFloat(x, p) == NumCell(Num(Scaled(x, p), Pow10(p)))

\* the Enr_out cell: None is written as the empty field
EnrCells == {NaN, Num(1, 2), Num(2, 1)}
EnrCell(x) == IF IsNum(x) THEN ReadFloat(x, PivotPrecision) ELSE NaNCell

\* the Freq_in cell of a row with Count_in = count.  src/modified_counts.py
\* writes the fraction as a float; easy_diver_2_gui holds the percentage and
\* writes f"{x:.{precision}f}%" (enrich_and_write line 490), which read_csv
\* leaves as text
FreqCell(v, count) ==
    IF v = "main" THEN ReadFloat(Num(count, PivotTotal), PivotPrecision)
    ELSE StrCell(FormatFixed(Num(100 * count, PivotTotal), PivotPrecision) \o <<37>>)

\* the metric columns kept, in the order of columns_to_keep
MetricColumns == <<"Enr_out", "Freq_in">>

\* the result files a round can have: a row per sequence of its out table
RoundFiles ==
    UNION {[S -> [Count_in : 1..MaxPivotCount, Enr_out : EnrCells]] :
           S \in (SUBSET Seqs) \ {{}}}

\* the listing entry of a pivot file all_rounds_<metric>_results.csv that
\* an earlier call wrote into the directory
AllRounds == 0

\* the orders os.listdir can give the files of rounds 1..n in
ListingOrders(n) ==
    {l \in [1..n -> 1..n] : \A i, j \in 1..n : i # j => l[i] # l[j]}

\* the cell of column <rnd>_<col> in the row of sequence s of merged_df:
\* NaN where the outer join found no row of s in the round's file
MergedCell(v, files, s, rnd, col) ==
    IF s \notin DOMAIN files[rnd] THEN NaNCell
    ELSE IF col = "Enr_out" THEN EnrCell(files[rnd][s].Enr_out)
    ELSE FreqCell(v, files[rnd][s].Count_in)

\* lines 745-763: the next file of the listing is read and merged (outer
\* join on Unique_Sequence_Name and Sequence)
PivotReadFile ==
    /\ ppc = "read" /\ pread < Len(plisting)
    /\ plisting[pread + 1] # AllRounds
    /\ pmerged' = [keys |-> pmerged.keys \cup DOMAIN pfiles[plisting[pread + 1]],
                   rounds |-> pmerged.rounds \cup {plisting[pread + 1]}]
    /\ pread' = pread + 1
    /\ ppc' = IF pread + 1 = Len(plisting) THEN "write" ELSE "read"
    /\ UNCHANGED <<pvariant, pfiles, plisting, pcol, pwritten>>
    /\ UNCHANGED notPivot

\* final_cols_to_keep.extend(sorted(temp_cols)): the columns <rnd>_<col>
\* sorted as text; rnd is the round zero-filled to 3 digits, so the last
\* one is that of the largest round
LastRound(rounds) == CHOOSE r \in rounds : \A q \in rounds : q <= r

RECURSIVE TextLess(_, _)
TextLess(a, b) ==
    IF b = <<>> THEN FALSE
    ELSE IF a = <<>> THEN TRUE
    ELSE IF Head(a) # Head(b) THEN Head(a) < Head(b)
    ELSE TextLess(Tail(a), Tail(b))

\* a >= b as sort_values compares two cells of one column: floats by value,
\* text by character codes
CellGE(a, b) ==
    IF a.k = "str" THEN ~TextLess(a.text, b.text)
    ELSE a.n * b.d >= b.n * a.d

\* sort_values(by = final_output.columns[-1], ascending = False): the orders
\* of the rows with the last column descending and NaN last; equal cells in
\* any order
PivotSortOrders(keys, cell) ==
    {o \in [1..Cardinality(keys) -> keys] :
        /\ \A i, j \in 1..Cardinality(keys) : i # j => o[i] # o[j]
        /\ \A i \in 1..(Cardinality(keys) - 1) :
             \/ cell[o[i + 1]].k = "nan"
             \/ cell[o[i]].k # "nan" /\ CellGE(cell[o[i]], cell[o[i + 1]])}

\* lines 764-782: the pivot table of the next metric column is sorted and
\* written
PivotWrite ==
    /\ ppc = "write" /\ pcol <= Len(MetricColumns)
    /\ \E cell \in {[s \in pmerged.keys |->
                       MergedCell(pvariant, pfiles, s, LastRound(pmerged.rounds),
                                  MetricColumns[pcol])]} :
         \E o \in PivotSortOrders(pmerged.keys, cell) :
            pwritten' = [pwritten EXCEPT ![pcol] = o]
    /\ pcol' = pcol + 1
    /\ ppc' = IF pcol = Len(MetricColumns) THEN "done" ELSE "write"
    /\ UNCHANGED <<pvariant, pfiles, plisting, pread, pmerged>>
    /\ UNCHANGED notPivot

\* line 743: the listing of a second call on the same directory holds the
\* pivot files the first call wrote, one per metric column, at any place
\* among the round files (here: together)
SecondListings(listing) ==
    {SubSeq(listing, 1, q) \o [c \in 1..Len(MetricColumns) |-> AllRounds]
        \o SubSeq(listing, q + 1, Len(listing)) : q \in 0..Len(listing)}

\* the function is called again on the directory of a finished call
PivotSecondCall ==
    /\ ppc = "done"
    /\ \A i \in 1..Len(plisting) : plisting[i] # AllRounds
    /\ plisting' \in SecondListings(plisting)
    /\ ppc' = "read"
    /\ pread' = 0
    /\ pmerged' = [keys |-> {}, rounds |-> {}]
    /\ pcol' = 1
    /\ UNCHANGED <<pvariant, pfiles, pwritten>>
    /\ UNCHANGED notPivot

\* lines 745-749: the loop reaches a pivot file: read_csv(skiprows = 6)
\* takes its 7th line as the header (EmptyDataError when it has none), and
\* df_temp[columns_to_keep] raises KeyError
PivotReadRaises ==
    /\ ppc = "read" /\ pread < Len(plisting)
    /\ plisting[pread + 1] = AllRounds
    /\ ppc' = "raised"
    /\ UNCHANGED <<pvariant, pfiles, plisting, pread, pmerged, pcol, pwritten>>
    /\ UNCHANGED notPivot

PivotInit ==
    /\ ppc = "read"
    /\ pvariant \in EnrVariants
    /\ \E n \in 1..MaxPivotRound :
         /\ pfiles \in [1..n -> RoundFiles]
         /\ plisting \in ListingOrders(n)
    /\ pread = 0
    /\ pmerged = [keys |-> {}, rounds |-> {}]
    /\ pcol = 1
    /\ pwritten = [c \in 1..Len(MetricColumns) |-> <<>>]

\* write_enrichments_final_output is not run
PivotOff ==
    /\ ppc = "off" /\ pvariant = "main" /\ pfiles = <<>> /\ plisting = <<>>
    /\ pread = 0 /\ pmerged = [keys |-> {}, rounds |-> {}] /\ pcol = 0
    /\ pwritten = <<>>

PivotNext == PivotReadFile \/ PivotWrite \/ PivotSecondCall \/ PivotReadRaises

-----------------------------------------------------------------------------
(* SpecDiv: safe_divide on the operands process_enrichments passes to it.  *)

\* the (a, b) pairs of the safe_divide calls process_enrichments(row) makes,
\* in the order of the code, up to the condition that raises if one does
SafeDivideCalls(row) ==
    LET include_negative == "neg" \in DOMAIN row
        gate == Gt0(row.in.Freq_Lower)
        r1 == Raises(row.in.Freq_Lower)
        r2 == r1 \/ Raises(EnrPostMax(row))
        r3 == r2 \/ (include_negative /\ Raises(EnrNegMax(row)))
        r4 == r3 \/ Raises(EnrNegMax(row))
                \/ (Gt0(EnrNegMax(row)) /\ Raises(EnrNegMin(row)))
        e == ProcessEnrichments(row)
    IN  (IF ~r1 /\ gate
         THEN {<<row.out.Freq_Lower, row.in.Freq_Upper>>,
               <<row.out.Freq_Upper, row.in.Freq_Lower>>}
              \cup (IF include_negative
                    THEN {<<row.neg.Freq_Lower, row.in.Freq_Upper>>,
                          <<row.neg.Freq_Upper, row.in.Freq_Lower>>}
                    ELSE {})
         ELSE {})
        \cup (IF ~r2 /\ MakesSenseToPrint(EnrPostMax(row))
              THEN {<<row.out.Freq, row.in.Freq>>} ELSE {})
        \cup (IF ~r3 /\ include_negative /\ Gt0(EnrNegMax(row))
              THEN {<<row.neg.Freq, row.in.Freq>>} ELSE {})
        \cup (IF ~r4 /\ Gt0(EnrNegMax(row)) /\ Gt0(EnrNegMin(row))
              THEN {<<EnrPostMin(row), EnrNegMax(row)>>,
                    <<EnrPostMax(row), EnrNegMin(row)>>}
              ELSE {})
        \cup (IF ~r4 THEN {<<e.Enr_out, e.Enr_neg>>} ELSE {})

\* safe_divide(a, b) returns
SafeDivideReturns ==
    /\ div_pc = "call"
    /\ div_res' = SafeDivide(div_a, div_b, div_default)
    /\ div_pc' = "returned"
    /\ UNCHANGED <<div_a, div_b, div_default>>
    /\ UNCHANGED notDiv

DivInit ==
    /\ div_pc = "call"
    /\ \E v \in EnrVariants : \E row \in EnrRows(v) : \E c \in SafeDivideCalls(row) :
         div_a = c[1] /\ div_b = c[2]
    /\ div_default = Zero
    /\ div_res = None

\* safe_divide is not called
DivOff ==
    /\ div_pc = "off" /\ div_a = None /\ div_b = None /\ div_default = Zero
    /\ div_res = None

DivNext == SafeDivideReturns

-----------------------------------------------------------------------------
(* SpecGraphs: one generate_graphs request of SSAILR; the worker thread of *)
(* a task runs graphs.py, forwards its output lines and emits              *)
(* finished_signal, whose slot is on_graph_finish.                         *)

MaxOutput == 2      \* output lines the workers of one request emit

\* the return codes of graphs.py: success and two failures
ReturnCodes == {0, 1, 2}

NoWorker == [state |-> "none", graph_type |-> 0, returncode |-> 0]

\* lines 66-77: the tasks of a request, for i in range(1, 4)
GraphTasks(generate_scatter_plot, generate_histos) ==
    (IF generate_scatter_plot THEN <<1>> ELSE <<>>)
        \o (IF generate_histos THEN <<2, 3>> ELSE <<>>)

\* start_worker: a new SSAILRWorkerThread for the task is started (the
\* thread of the task before has been waited for)
StartedWorker(graph_type) ==
    [state |-> "running", graph_type |-> graph_type, returncode |-> 0]

\* process_next_graph with the queue `tasks`, after finished_callback has
\* been invoked with the codes `called`: the next task is popped and
\* started, or finished_callback(0) is invoked
ProcessNextGraph(tasks, called) ==
    IF tasks # <<>>
    THEN /\ graph_tasks' = Tail(tasks)
         /\ gworker' = StartedWorker(Head(tasks))
         /\ gstarted' = Append(gstarted, Head(tasks))
         /\ callbacks' = callbacks \o called
    ELSE /\ graph_tasks' = tasks
         /\ gworker' = IF gworker = NoWorker THEN NoWorker
                       ELSE [gworker EXCEPT !.state = "finished"]
         /\ gstarted' = gstarted
         /\ callbacks' = callbacks \o called \o <<0>>

\* generate_graphs(output_dir, generate_scatter_plot, generate_histos, ...)
GenerateGraphs ==
    /\ gpc = "idle"
    /\ \E generate_scatter_plot, generate_histos \in BOOLEAN :
         ProcessNextGraph(GraphTasks(generate_scatter_plot, generate_histos), <<>>)
    /\ gpc' = "requested"
    /\ UNCHANGED output_text
    /\ UNCHANGED notGraphs

\* SSAILRWorkerThread.run: a line of the process is forwarded
WorkerOutput ==
    /\ gworker.state = "running" /\ output_text < MaxOutput
    /\ output_text' = output_text + 1
    /\ UNCHANGED <<gpc, graph_tasks, gworker, gstarted, callbacks>>
    /\ UNCHANGED notGraphs

\* SSAILRWorkerThread.run: the process has ended, finished_signal is
\* emitted with its return code
WorkerEmitsFinished ==
    /\ gworker.state = "running"
    /\ \E returncode \in ReturnCodes :
         gworker' = [gworker EXCEPT !.state = "emitted", !.returncode = returncode]
    /\ UNCHANGED <<gpc, graph_tasks, output_text, gstarted, callbacks>>
    /\ UNCHANGED notGraphs

\* on_graph_finish(returncode, graph_type, ...), the slot of
\* finished_signal, with the process_next_graph it ends in
OnGraphFinish ==
    /\ gworker.state = "emitted"
    /\ ProcessNextGraph(graph_tasks,
            IF gworker.returncode = 0
            THEN IF graph_tasks = <<>> /\ gworker.graph_type = 3 THEN <<0>> ELSE <<>>
            ELSE <<1>>)
    /\ UNCHANGED <<gpc, output_text>>
    /\ UNCHANGED notGraphs

GraphsInit ==
    /\ gpc = "idle"
    /\ graph_tasks = <<>>
    /\ gworker = NoWorker
    /\ output_text = 0
    /\ gstarted = <<>>
    /\ callbacks = <<>>

\* no graph request is made
GraphsOff ==
    /\ gpc = "off" /\ graph_tasks = <<>> /\ gworker = NoWorker /\ output_text = 0
    /\ gstarted = <<>> /\ callbacks = <<>>

GraphsNext == GenerateGraphs \/ WorkerOutput \/ WorkerEmitsFinished \/ OnGraphFinish

-----------------------------------------------------------------------------
(* SpecLock: processes of the GUI application starting and exiting on one  *)
(* lock file path (POSIX: fcntl.flock locks the open file, i.e. the inode  *)
(* the path named when it was opened).                                     *)

MaxStarts == 1      \* starts of one process

LockProcs == {1, 2, 3}
LockVariants == {"plus", "gui2"}
Inodes == 1..(Cardinality(LockProcs) * MaxStarts)

\* lock_file = open(lockfile, 'w'): the file is created when the path names
\* none
CheckOpen(p) ==
    /\ lpc[p] = "out" /\ starts[p] < MaxStarts
    /\ \E inode \in {IF lockfile = 0 THEN ninodes + 1 ELSE lockfile} :
         /\ lockfile' = inode
         /\ lock_file' = [lock_file EXCEPT ![p] = inode]
         /\ ninodes' = IF lockfile = 0 THEN ninodes + 1 ELSE ninodes
    /\ lpc' = [lpc EXCEPT ![p] = "opened"]
    /\ starts' = [starts EXCEPT ![p] = @ + 1]
    /\ UNCHANGED <<lvariant, flocked>>
    /\ UNCHANGED notLock

\* fcntl.flock(lock_file, LOCK_EX | LOCK_NB) succeeds: check_single_instance
\* returns and the application runs
CheckLocked(p) ==
    /\ lpc[p] = "opened" /\ flocked[lock_file[p]] = 0
    /\ flocked' = [flocked EXCEPT ![lock_file[p]] = p]
    /\ lpc' = [lpc EXCEPT ![p] = "running"]
    /\ UNCHANGED <<lvariant, lock_file, lockfile, ninodes, starts>>
    /\ UNCHANGED notLock

\* flock raises IOError: sys.exit(1).  In easy_diver_plus_main.py the
\* finally clause of the main block then calls release_lockfile; in
\* easy_diver_2_main.py the process just ends
CheckRefused(p) ==
    /\ lpc[p] = "opened" /\ flocked[lock_file[p]] # 0
    /\ IF lvariant = "plus"
       THEN lpc' = [lpc EXCEPT ![p] = "releasing"] /\ UNCHANGED lock_file
       ELSE lpc' = [lpc EXCEPT ![p] = "out"] /\ lock_file' = [lock_file EXCEPT ![p] = 0]
    /\ UNCHANGED <<lvariant, lockfile, flocked, ninodes, starts>>
    /\ UNCHANGED notLock

\* the application exits (sys.exit(app.exec_())): release_lockfile begins in
\* easy_diver_plus_main.py; in easy_diver_2_main.py the process ends and its
\* lock goes with its file descriptor
AppExits(p) ==
    /\ lpc[p] = "running"
    /\ IF lvariant = "plus"
       THEN lpc' = [lpc EXCEPT ![p] = "releasing"] /\ UNCHANGED <<lock_file, flocked>>
       ELSE /\ lpc' = [lpc EXCEPT ![p] = "out"]
            /\ flocked' = [flocked EXCEPT ![lock_file[p]] = 0]
            /\ lock_file' = [lock_file EXCEPT ![p] = 0]
    /\ UNCHANGED <<lvariant, lockfile, ninodes, starts>>
    /\ UNCHANGED notLock

\* release_lockfile: fcntl.flock(lock_file, fcntl.LOCK_UN)
ReleaseUnlock(p) ==
    /\ lpc[p] = "releasing"
    /\ flocked' = IF flocked[lock_file[p]] = p
                  THEN [flocked EXCEPT ![lock_file[p]] = 0] ELSE flocked
    /\ lpc' = [lpc EXCEPT ![p] = "unlocked"]
    /\ UNCHANGED <<lvariant, lock_file, lockfile, ninodes, starts>>
    /\ UNCHANGED notLock

\* release_lockfile: lock_file.close()
ReleaseClose(p) ==
    /\ lpc[p] = "unlocked"
    /\ lock_file' = [lock_file EXCEPT ![p] = 0]
    /\ lpc' = [lpc EXCEPT ![p] = "closed"]
    /\ UNCHANGED <<lvariant, lockfile, flocked, ninodes, starts>>
    /\ UNCHANGED notLock

\* release_lockfile: os.remove(lockfile) unlinks whatever file the path
\* names now (FileNotFoundError when none: the process ends all the same)
ReleaseRemove(p) ==
    /\ lpc[p] = "closed"
    /\ lockfile' = 0
    /\ lpc' = [lpc EXCEPT ![p] = "out"]
    /\ UNCHANGED <<lvariant, lock_file, flocked, ninodes, starts>>
    /\ UNCHANGED notLock

LockInit ==
    /\ lvariant \in LockVariants
    /\ lpc = [p \in LockProcs |-> "out"]
    /\ lock_file = [p \in LockProcs |-> 0]
    /\ lockfile = 0
    /\ flocked = [i \in Inodes |-> 0]
    /\ ninodes = 0
    /\ starts = [p \in LockProcs |-> 0]

\* no application is started
LockOff ==
    /\ lvariant = "off" /\ lpc = <<>> /\ lock_file = <<>> /\ lockfile = 0
    /\ flocked = <<>> /\ ninodes = 0 /\ starts = <<>>

LockNext ==
    \E p \in LockProcs :
        \/ CheckOpen(p) \/ CheckLocked(p) \/ CheckRefused(p) \/ AppExits(p)
        \/ ReleaseUnlock(p) \/ ReleaseClose(p) \/ ReleaseRemove(p)

-----------------------------------------------------------------------------
(* Specifications *)

InitBoot == BootInit /\ EnrOff /\ RunOff /\ WriteOff /\ NameOff /\ DirsOff /\ PivotOff /\ DivOff /\ GraphsOff /\ LockOff
SpecBoot == InitBoot /\ [][BootNext]_vars

InitEnr == EnrInit /\ BootOff /\ RunOff /\ WriteOff /\ NameOff /\ DirsOff /\ PivotOff /\ DivOff /\ GraphsOff /\ LockOff
SpecEnr == InitEnr /\ [][EnrNext]_vars

InitRun == RunInit /\ BootOff /\ EnrOff /\ WriteOff /\ NameOff /\ DirsOff /\ PivotOff /\ DivOff /\ GraphsOff /\ LockOff
SpecRun == InitRun /\ [][RunNext]_vars

InitWrite == WriteInit /\ BootOff /\ EnrOff /\ RunOff /\ NameOff /\ DirsOff /\ PivotOff /\ DivOff /\ GraphsOff /\ LockOff
SpecWrite == InitWrite /\ [][WriteNext]_vars

InitNames == NameInit /\ BootOff /\ EnrOff /\ RunOff /\ WriteOff /\ DirsOff /\ PivotOff /\ DivOff /\ GraphsOff /\ LockOff
SpecNames == InitNames /\ [][NameNext]_vars

InitDirs == DirsInit /\ BootOff /\ EnrOff /\ RunOff /\ WriteOff /\ NameOff /\ PivotOff /\ DivOff /\ GraphsOff /\ LockOff
SpecDirs == InitDirs /\ [][DirsNext]_vars

InitPivot == PivotInit /\ BootOff /\ EnrOff /\ RunOff /\ WriteOff /\ NameOff /\ DirsOff /\ DivOff /\ GraphsOff /\ LockOff
SpecPivot == InitPivot /\ [][PivotNext]_vars

InitDiv == DivInit /\ BootOff /\ EnrOff /\ RunOff /\ WriteOff /\ NameOff /\ DirsOff /\ PivotOff /\ GraphsOff /\ LockOff
SpecDiv == InitDiv /\ [][DivNext]_vars

InitGraphs == GraphsInit /\ BootOff /\ EnrOff /\ RunOff /\ WriteOff /\ NameOff /\ DirsOff /\ PivotOff /\ DivOff /\ LockOff
SpecGraphs == InitGraphs /\ [][GraphsNext]_vars

InitLock == LockInit /\ BootOff /\ EnrOff /\ RunOff /\ WriteOff /\ NameOff /\ DirsOff /\ PivotOff /\ DivOff /\ GraphsOff
SpecLock == InitLock /\ [][LockNext]_vars

-----------------------------------------------------------------------------
(* Claims settled under SpecBoot *)

\* C1: every CountRecord a loader produces for a sequence with observed
\* count > 0 reports, once its lower bound is converted to an integer (by the
\* loader of seq_names_and_bootstrap.py, or by enrich_and_write's
\* astype(int) for the loader of modified_counts.py), a count_lower >= 1.
C1_CountLowerAtLeastOne ==
    \A i \in 1..Len(records) :
        records[i].Count.n > 0 => AsInt(records[i].Count_Lower) >= 1

\* C6: two bootstrap calls with the same (total, observed, depth, seed)
\* return the identical interval, whatever calls came before or between:
\* no key has ever been answered with two different intervals.
C6_BootstrapDeterministic ==
    \A k \in BootKeys : Cardinality(returned[k]) <= 1

\* C6 witness: a key of the uncached bootstrap was looked up twice, a
\* resampled key with a free outcome, and another key was looked up as well.
C6_Witness ==
    \E k \in BootKeys :
        /\ bvariant = "parallel" /\ calls[k] = 2 /\ draws[k] = 2
        /\ k[2] > 0 /\ k[2] < k[1]
        /\ \E k2 \in BootKeys : k2 # k /\ calls[k2] >= 1

\* C7: while a loader processes counts files, each distinct
\* (total_molecules, observed_count) key is resampled at most once; a second
\* sequence with the same count and total is served without a new binomial
\* draw.
C7_ResampledAtMostOnce ==
    bvariant \in {"parallel", "cached"} => \A k \in BootKeys : draws[k] <= 1

-----------------------------------------------------------------------------
(* Claims settled under SpecEnr *)

\* C4: enrichment gating: for every merged row whose Freq_Lower of the
\* pre-selection (in) group is 0, process_enrichments returns, without
\* raising, Enr_post (Enr_out) = None, whatever the other frequencies are.
C4_GatedEnrPostNull ==
    (epc = "done" /\ erow.in.Freq_Lower = Zero)
        => (~eres.raised /\ eres.Enr_out = None)

\* C4 witness: a processed row with Freq_Lower_in = 0 whose in and out
\* frequencies and out bounds are all positive, so that a ratio exists.
C4_Witness ==
    /\ epc = "done" /\ erow.in.Freq_Lower = Zero
    /\ Gt0(erow.in.Freq) /\ Gt0(erow.in.Freq_Upper)
    /\ Gt0(erow.out.Freq) /\ Gt0(erow.out.Freq_Lower)
    /\ eres.Enr_out = None

\* a row without negative-control data: no _neg columns, or _neg columns
\* that hold the missing value (table absent, or sequence not in the table)
NoNegData(row) == "neg" \notin DOMAIN row \/ ~IsNum(row.neg.Count)

\* C9: for every merged row without negative-control data,
\* process_enrichments returns (the row is emitted) and Enr_neg,
\* Enr_neg_lower, Enr_neg_upper, Enr_ratio, Enr_ratio_lower and
\* Enr_ratio_upper are all None.
C9_NoNegDataAllNull ==
    (epc = "done" /\ NoNegData(erow))
        => /\ ~eres.raised
           /\ eres.Enr_neg = None /\ eres.Enr_neg_lower = None
           /\ eres.Enr_neg_upper = None /\ eres.Enr_ratio = None
           /\ eres.Enr_ratio_lower = None /\ eres.Enr_ratio_upper = None

-----------------------------------------------------------------------------
(* Claims settled under SpecRun *)

C3_CarryForward ==
    (rpc = "merged" /\ round_i > 1 /\ ~rfiles.in_listed) =>
        \A i \in 1..Len(merged_data) : \A j \in 1..Len(prev_out) :
            prev_out[j].Sequence = merged_data[i].Sequence
                => merged_data[i].in.Count = Num(prev_out[j].Count, 1)

\* C5: within one run the sequence-to-name assignment is a bijection: a
\* sequence carries one and the same Unique_Sequence_Name in every round,
\* and two distinct sequences never carry the same name.
C5_NameBijection ==
    /\ \A s \in Seqs : Cardinality(named[s]) <= 1
    /\ \A s, t \in Seqs : s # t => named[s] \cap named[t] = {}

\* the count and frequency fields of a group
CountFreqFields(g) ==
    {g.Count, g.Count_Lower, g.Count_Upper, g.Freq, g.Freq_Lower, g.Freq_Upper}

\* C8 as stated: for a round without a neg file every row carries the
\* missing-value sentinel, not 0, in its _neg count and frequency fields,
\* in the merged row and in the written per-round result.
C8_NegSentinelMergedAndWritten ==
    (rpc = "merged" /\ rfiles.neg = NoFile) =>
        /\ \A i \in 1..Len(merged_data) : CountFreqFields(merged_data[i].neg) = {NaN}
        /\ \A i \in 1..Len(written) :
             "neg" \in DOMAIN written[i] => Zero \notin CountFreqFields(written[i].neg)

\* C8 amended: for a round without a neg file every merged row carries the
\* sentinel NaN in its _neg count and frequency fields; the written result
\* holds the _neg columns exactly when the sorting table lists a negative
\* file, and then every such field is written as 0.
C8_NegSentinelMergedZeroWritten ==
    (rpc = "merged" /\ rfiles.neg = NoFile) =>
        /\ \A i \in 1..Len(merged_data) : CountFreqFields(merged_data[i].neg) = {NaN}
        /\ \A i \in 1..Len(written) :
             /\ "neg" \in DOMAIN written[i] <=> neg_files_exist
             /\ "neg" \in DOMAIN written[i] => CountFreqFields(written[i].neg) = {Zero}

\* C8 witness: a round without a neg file, in a run whose sorting table
\* lists negative files, was merged and written, its in file present.
C8_Witness ==
    /\ rpc = "merged" /\ rfiles.neg = NoFile /\ neg_files_exist
    /\ rfiles.in # NoFile /\ Len(written) >= 1
    /\ "neg" \in DOMAIN written[1]

-----------------------------------------------------------------------------
(* Claims settled under SpecWrite *)

\* C10: whenever a concurrent reader reads <prefix>.csv while
\* enrich_and_write runs, it sees no file or the previous complete content,
\* or the complete new content; never an empty or partly written file.
C10_ReaderSeesCompleteOnly ==
    wpc # "off" =>
        observed \in {AbsentFile, old_dest, CompleteFile("new", nchunks)}

-----------------------------------------------------------------------------
(* Further claims settled under SpecRun *)

\* C11: failure isolation in find_enrichments: a round without an out
\* (post-selection) file, or whose computation raises, is skipped; the run
\* is not aborted, the loop goes on to the other rounds and to
\* write_enrichments_final_output.  An aborted run is the state "crashed":
\* the exception has left find_enrichments, no later round is processed and
\* the final output is not written.
C11_FailureIsolation ==
    rpc # "crashed"

\* C18: the header block of a per-round result file reports, for each
\* source (in, out, neg) that exists for the round, the unique-sequence
\* count and the total-molecule count of that source's file header,
\* whichever sequence sorts first in the merged table and whether or not
\* that sequence occurs in the source.
C18_HeaderReportsSourceTotals ==
    (rpc = "merged" /\ extra_header # NoHeader) =>
        /\ rfiles.in # NoFile =>
             /\ extra_header.seq_in = Num(Len(rfiles.in), 1)
             /\ extra_header.mol_in = Num(SumCounts(rfiles.in), 1)
        /\ extra_header.seq_out = Num(Len(rfiles.out), 1)
        /\ extra_header.mol_out = Num(SumCounts(rfiles.out), 1)
        /\ rfiles.neg # NoFile =>
             /\ extra_header.seq_neg = Num(Len(rfiles.neg), 1)
             /\ extra_header.mol_neg = Num(SumCounts(rfiles.neg), 1)

\* the rows of the merged table whose sequence is also in the counts file
\* f carry, in group grp, the columns of f's table for that sequence
AttachedFrom(f, grp) ==
    \A i \in 1..Len(merged_data) :
        merged_data[i].Sequence \in SeqsOf(LoadTable(f))
            => merged_data[i][grp] = GroupOf(LoadTable(f), merged_data[i].Sequence)

\* C20: in merge_data_for_rounds, whenever a pre-selection (in) table is
\* supplied, every sequence present in both the out and the in table gets
\* the in table's values in its _in fields, and whenever a negative-control
\* table is supplied every sequence present in both out and neg gets the
\* neg table's values in its _neg fields, for each combination of tables
\* supplied (in only, neg only, both).
C20_MergeAttachesSuppliedTables ==
    rpc = "merged" =>
        /\ rfiles.in # NoFile => AttachedFrom(rfiles.in, "in")
        /\ rfiles.neg # NoFile => AttachedFrom(rfiles.neg, "neg")

-----------------------------------------------------------------------------
(* Further claims settled under SpecEnr *)

\* a / b of two numbers, b not 0
Quotient(a, b) == Num(a.n * b.d, a.d * b.n)

\* x is the quotient a / b of two numbers
IsQuotient(x, a, b) == IsNum(a) /\ IsNum(b) /\ b.n # 0 /\ x = Quotient(a, b)

C22_RatioGatedByNegBounds ==
    (epc = "done" /\ ~eres.raised) =>
        IF Gt0(EnrNegMax(erow)) /\ Gt0(EnrNegMin(erow))
        THEN /\ IsQuotient(eres.Enr_ratio_lower, EnrPostMin(erow), EnrNegMax(erow))
             /\ IsQuotient(eres.Enr_ratio_upper, EnrPostMax(erow), EnrNegMin(erow))
        ELSE /\ eres.Enr_ratio = None
             /\ eres.Enr_ratio_lower = None
             /\ eres.Enr_ratio_upper = None

\* C24: process_enrichments raises no error for any merged row: whatever
\* missing-value sentinels the _in and _neg fields hold, whatever
\* frequencies or bounds are zero, and whether or not the row has the
\* negative columns, it returns a result record.
C24_NeverRaises ==
    epc = "done" => ~eres.raised

-----------------------------------------------------------------------------
(* Further claims settled under SpecPivot *)

\* C28: cross-round aggregation is idempotent over its output directory: a
\* second call of write_enrichments_final_output on a directory that
\* already holds the all_rounds_*_results.csv files of the first call
\* completes without error (only per-round result files are read).
C28_SecondCallCompletes ==
    ppc # "raised"

-----------------------------------------------------------------------------
(* Claims settled under SpecDiv *)

\* C23: for every pair of operands the enrichment calculator passes,
\* safe_divide(a, b, default) returns None when a or b is None, returns
\* default (0 when not supplied) when b is zero and a is not None, and
\* returns the quotient a / b otherwise (the float quotient: NaN when an
\* operand is NaN).
C23_SafeDivideCases ==
    div_pc = "returned" =>
        IF div_a = None \/ div_b = None THEN div_res = None
        ELSE IF div_b = Zero THEN div_res = div_default /\ div_default = Zero
        ELSE IF IsNum(div_a) /\ IsNum(div_b) THEN div_res = Quotient(div_a, div_b)
        ELSE div_res = NaN

\* C23 witness: a call with a NaN numerator and a zero denominator has
\* returned the default.
C23_Witness ==
    div_pc = "returned" /\ div_a = NaN /\ div_b = Zero /\ div_res = Zero

\* C25: within a run unique_sequence_name_generator gives the n-th distinct
\* sequence encountered the base-58 encoding of n, under one indexing (from
\* 0 or from 1) used for all assignments, whatever the row index at which
\* the sequence is first seen.
C25_NthSequenceNamedN ==
    rpc \in {"merged", "round", "done"} =>
        \E first \in {0, 1} :
            \A n \in 1..Len(encountered) :
                unique_sequence_dict[encountered[n]] = base_encode(n - 1 + first)

\* the position of sequence s in the round's out file
InputPosition(s) == CHOOSE j \in 1..Len(rfiles.out) : rfiles.out[j].Sequence = s

\* C26: the merged table of a round is ordered by Count_post (Count_out)
\* descending, and any two rows with equal Count_out appear in the same
\* relative order as in the post-selection input table.
C26_StableDescendingSort ==
    rpc = "merged" =>
        \A i, j \in 1..Len(merged_data) :
            i < j =>
                \/ AsInt(merged_data[i].out.Count) > AsInt(merged_data[j].out.Count)
                \/ /\ merged_data[i].out.Count = merged_data[j].out.Count
                   /\ InputPosition(merged_data[i].Sequence)
                        < InputPosition(merged_data[j].Sequence)

-----------------------------------------------------------------------------
(* Claims settled under SpecGraphs *)

\* no task of the request is queued or at hand any more
RequestOver == gpc = "requested" /\ graph_tasks = <<>> /\ gworker.state \in {"none", "finished"}

\* C29: for one generate_graphs request the graph tasks are started one at
\* a time in queue order, and finished_callback is invoked exactly once,
\* after the last task has finished, whichever graph types are selected
\* and whatever the tasks' return codes are.
C29_CallbackOnceAfterLastTask ==
    /\ \A i \in 1..(Len(gstarted) - 1) : gstarted[i] < gstarted[i + 1]
    /\ Len(callbacks) <= 1
    /\ callbacks # <<>> => RequestOver
    /\ RequestOver => Len(callbacks) = 1

-----------------------------------------------------------------------------
(* Claims settled under SpecLock *)

\* C30: single-instance mutual exclusion: under any interleaving of
\* application starts (check_single_instance) and exits (release_lockfile:
\* unlock, close, remove the lock file), at most one process at a time has
\* passed check_single_instance and not yet exited.
C30_SingleInstance ==
    Cardinality({p \in LockProcs : lpc[p] = "running"}) <= 1

-----------------------------------------------------------------------------
(* Claims settled under SpecNames *)

\* the names sequence s carries in the output file of invocation p
OutputNames(p, s) ==
    {noutput[p][i].Unique_Sequence_Name :
        i \in {j \in 1..Len(noutput[p]) : noutput[p][j].Sequence = s}}

\* the names sequence s carries anywhere: in an output file or in the
\* persisted dictionary
NamesOf(s) ==
    UNION {OutputNames(p, s) : p \in Procs}
        \cup (IF s \in DOMAIN seq_dict_file.dict THEN {seq_dict_file.dict[s]} ELSE {})

\* C12: for any interleaving of two invocations of main that load and
\* persist the same sequence-dictionary file, after both complete every
\* sequence has a single name (the same in both output files and in the
\* persisted dictionary), no two distinct sequences share a name, and every
\* assignment either invocation made is in the persisted dictionary.
C12_ParallelNamesConsistent ==
    (\A p \in Procs : npc[p] = "done") =>
        /\ \A s \in Seqs : Cardinality(NamesOf(s)) <= 1
        /\ \A s, t \in Seqs : s # t => NamesOf(s) \cap NamesOf(t) = {}
        /\ \A p \in Procs : \A i \in 1..Len(noutput[p]) :
             /\ noutput[p][i].Sequence \in DOMAIN seq_dict_file.dict
             /\ seq_dict_file.dict[noutput[p][i].Sequence]
                    = noutput[p][i].Unique_Sequence_Name

-----------------------------------------------------------------------------
(* Further claims settled under SpecBoot *)

\* C13: in the parallel bootstrap of one counts table through the worker
\* pool no (total, observed) key is resampled twice: the number of
\* np.random.binomial executions for the table equals the number of its
\* distinct observed counts, whichever workers the rows were handed to.
C13_PoolResamplesDistinctCounts ==
    (bvariant = "parallel" /\ bpc = "rows") =>
        bdraws = Cardinality({bcounts[i] : i \in 1..Len(bcounts)})

\* C14: a bootstrap request with total = 0 (and observed = 0) raises no
\* error, performs no binomial draw and no division by the total, and
\* returns the degenerate interval [0, 0].
C14_DegenerateTotalHandled ==
    /\ bpc # "raised"
    /\ \A k \in BootKeys : k[1] = 0 => draws[k] = 0 /\ returned[k] \subseteq {<<0, 0>>}

\* the intervals a resampling of (total, observed) without any cache can
\* return, for a total above 0
UncachedIntervals(total, count) ==
    {Bootstrapped95CI(s) : s \in BinomialSamples(total, count)}

\* C19: cache transparency: in the loader that keeps a bootstrap cache,
\* over any sequence of lookups (files with different totals sharing an
\* observed count, a cache kept from an earlier file or invocation), every
\* interval returned for (total, observed) is an interval an uncached
\* resampling of that same pair returns.
C19_CacheTransparency ==
    bvariant = "cached" =>
        \A k \in BootKeys :
            (k[1] > 0 /\ k[2] <= k[1]) => returned[k] \subseteq UncachedIntervals(k[1], k[2])

\* x <= y for two numbers
LessEq(x, y) == x.n * y.d <= y.n * x.d

\* C27: every CountRecord a loader produces satisfies Count_Lower <=
\* Count_Upper after the lower bound has been clamped (replace(0, 1)), for
\* every observed count, 0 included, and every total above 0.
C27_LowerAtMostUpper ==
    \A i \in 1..Len(records) :
        records[i].Total_Molecules.n > 0
            => LessEq(records[i].Count_Lower, records[i].Count_Upper)

-----------------------------------------------------------------------------
(* Further claims settled under SpecWrite *)

\* C15: if an I/O error occurs at any step of enrich_and_write (writing the
\* temp file, reading it back, writing the destination, removing the temp
\* file), then after the call has returned the output directory holds
\* neither a partly written destination nor a leftover temp file.
C15_NoPartialFileAfterError ==
    (wpc = "returned" /\ wreturn = "False") =>
        /\ dest \in {AbsentFile, old_dest, CompleteFile("new", nchunks)}
        /\ temp = AbsentFile

-----------------------------------------------------------------------------
(* Claims settled under SpecDirs *)

\* folder f is a directory whose files are not the sorting table's
TableMismatch(f) ==
    /\ counts_listing[f] # NoDir
    /\ \E x \in FileNames :
         Cardinality({i \in 1..Len(rounds_data) : rounds_data[i].filename = x})
            # Cardinality({j \in 1..Len(counts_listing[f]) : counts_listing[f][j] = x})

-----------------------------------------------------------------------------
(* Claims settled under SpecPivot *)

RECURSIVE DigitsValue(_)
DigitsValue(text) ==
    IF text = <<>> THEN 0
    ELSE 10 * DigitsValue(SubSeq(text, 1, Len(text) - 1)) + (text[Len(text)] - 48)

\* the number a percentage text "<digits>.<digits>%" denotes
PercentValue(text) ==
    LET dot == CHOOSE i \in 1..Len(text) : text[i] = 46
        frac == SubSeq(text, dot + 1, Len(text) - 1)
    IN  Num(DigitsValue(SubSeq(text, 1, dot - 1)) * Pow10(Len(frac)) + DigitsValue(frac),
            Pow10(Len(frac)))

\* the number in a cell of a pivot table (n = -1: none)
CellNumber(cell) ==
    IF cell.k = "str" THEN PercentValue(cell.text)
    ELSE IF cell.k = "num" THEN Num(cell.n, cell.d)
    ELSE [k |-> "nan", n |-> -1, d |-> 1]

\* the number in the last round's column of the pivot table of metric
\* column c, in the row of sequence s
LastColumnNumber(c, s) ==
    CellNumber(MergedCell(pvariant, pfiles, s, Len(pfiles), MetricColumns[c]))

\* C17: each pivot table written is sorted in descending numeric order of
\* the highest-numbered round's column of its metric, for the enrichment
\* and for the (in easy_diver_2_gui percentage-formatted) frequency columns
\* and for every order of the directory listing; rows without a value in
\* that column come last.
C17_PivotSortedByLastRound ==
    \A c \in 1..Len(MetricColumns) :
        (ppc # "off" /\ pwritten[c] # <<>>) =>
            \A i \in 1..(Len(pwritten[c]) - 1) :
                LET hi == LastColumnNumber(c, pwritten[c][i])
                    lo == LastColumnNumber(c, pwritten[c][i + 1])
                IN  lo.n >= 0 => (hi.n >= 0 /\ hi.n * lo.d >= lo.n * hi.d)

====
